---- MODULE Spec2Model ----
(***************************************************************************)
(* Device-resource lifecycle layer of rendy: the Factory of                *)
(* factory/src/factory.rs together with the collaborators it drives (the   *)
(* resource registry, the heaps, the per-family uploader, the queues'      *)
(* epoch counters and the epoch-carrying fences).  The Factory's methods   *)
(* are translated from factory.rs; the collaborators, whose code lives in  *)
(* other crates of the repository, follow spec.md.                         *)
(***************************************************************************)
EXTENDS Integers, Sequences, FiniteSets, TLC

(***************************************************************************)
(* Bounds of the model.                                                    *)
(***************************************************************************)
MaxRes == 3
MaxFences == 4
MaxSubmits == 2
HeapTotal == 2
\* the registry scenario (SpecReclaim) creates fewer resources and fences
ReclaimRes == 1
FewFences == 1
\* the fences of the fence-wait scenarios
WaitFences == 3
\* the longest fence list of a concurrent wait
MaxList == 2
\* the scenarios with submissions and fences (Spec, SpecHeap) create this many resources
FewRes == 2
\* the Any-policy scenario (SpecAny) explores this many submissions per queue
AnyEpochs == 2
\* the caller threads of the concurrent scenarios
MaxThreads == 2
\* the calls of Factory::init that reach the singleton check
MaxInits == 5

(***************************************************************************)
(* Configuration: the queue families handed to Factory::init, in the order *)
(* of the `families` vector.  Index 0 holds the family with id 1 (one      *)
(* queue), index 1 the family with id 0 (two queues), so that a family's   *)
(* id differs from its index.                                              *)
(***************************************************************************)
families == (0 :> [id |-> 1, queues |-> 1]) @@ (1 :> [id |-> 0, queues |-> 2])

FamilyIndices == DOMAIN families

\* factory.rs 169-172: families_indices[family.id().0] = index
families_indices ==
  [id \in {families[i].id : i \in FamilyIndices} |->
     CHOOSE index \in FamilyIndices : families[index].id = id]

QueueIndices(index) == 0 .. (families[index].queues - 1)

\* QueueId(FamilyId, index)
QueueIds ==
  UNION {{[family |-> families[i].id, index |-> k] : k \in QueueIndices(i)} :
           i \in FamilyIndices}

NoUse == -1
NoEpoch == [queue |-> [family |-> -1, index |-> -1], epoch |-> -1]

Resources == 1 .. MaxRes
Fences == 1 .. MaxFences
\* allocation sizes, in units of the allocation granularity
Sizes == {1}
HeapIds == {"host", "device"}

VARIABLES
  next_epoch,   \* next_epoch[index][k]: Queue::next_epoch of queue k of families[index]
  epochs,       \* Factory::epochs[index][k]: completed epoch of that queue
  fences,       \* fences[f]: state and bound FenceEpoch of fence f
  resources,    \* the registry's catalogue: state, kind, size, heap, last-use record
  heaps,        \* heaps[h]: bytes currently allocated from heap h
  uploads       \* Uploader::families[index]: pending staging records, in-flight staging buffers

vars == <<next_epoch, epochs, fences, resources, heaps, uploads>>

Threads == 1 .. MaxThreads
NoThread == 0

\* The callers: threads that share the Factory, the locks of its fields, the process-wide
\* counter and the device the Factory drives.
VARIABLES
  pc,             \* pc[t]: the place thread t has reached in its Factory call, "idle" in none
  call,           \* call[t]: the arguments and locals of that call
  heaps_lock,     \* Factory::heaps (Mutex): the thread holding the guard, or NoThread
  resources_lock, \* Factory::resources (RwLock): the threads holding read guards
  epochs_lock,    \* Factory::epochs[index] (RwLock): the thread holding the write guard
  FACTORY_ID,     \* the static counter of line 23
  constructed,    \* the Factory values Factory::init has returned so far
  gpu_done        \* gpu_done[index][k]: the submissions of that queue the device has finished

callers == <<pc, call, heaps_lock, resources_lock, epochs_lock, FACTORY_ID, constructed, gpu_done>>

allvars == <<vars, callers>>

----------------------------------------------------------------------------
(***************************************************************************)
(* Queue/Epoch ledger.                                                     *)
(***************************************************************************)

\* the `next` counter of queue q
Next_of(q) == next_epoch[families_indices[q.family]][q.index]

\* the stored completed epoch of queue q
Completed_of(q) == epochs[families_indices[q.family]][q.index]

\* Epochs { values }: lookup of a queue in a snapshot
EpochOf(snapshot, q) == snapshot[families_indices[q.family]][q.index]

\* factory.rs 607-615
next_epochs ==
  [i \in FamilyIndices |-> [k \in QueueIndices(i) |-> next_epoch[i][k]]]

\* a bug: the completed snapshot is taken from the queues' next counters
complete_epochs_from_next ==
  [i \in FamilyIndices |-> [k \in QueueIndices(i) |-> next_epoch[i][k]]]

\* a bug: the completed snapshot holds, for every queue, its family's largest value
complete_epochs_family_max ==
  [i \in FamilyIndices |->
     [k \in QueueIndices(i) |->
        CHOOSE m \in {epochs[i][j] : j \in QueueIndices(i)} :
          \A j \in QueueIndices(i) : epochs[i][j] <= m]]

\* a bug: the completed snapshot is the initial vector, not the current one
complete_epochs_stale ==
  [i \in FamilyIndices |-> [k \in QueueIndices(i) |-> 0]]

\* factory.rs 617-625
complete_epochs ==
  [i \in FamilyIndices |-> [k \in QueueIndices(i) |-> epochs[i][k]]]

Max(a, b) == IF a >= b THEN a ELSE b

\* the submissions made so far; the specifications explore at most MaxSubmits of them
TotalSubmits ==
  LET qs == QueueIds
      RECURSIVE Sum(_)
      Sum(S) == IF S = {} THEN 0
                ELSE LET q == CHOOSE x \in S : TRUE IN Next_of(q) + Sum(S \ {q})
  IN Sum(qs)

----------------------------------------------------------------------------
(***************************************************************************)
(* Resource registry and heaps.                                            *)
(***************************************************************************)

NoUses == [q \in QueueIds |-> NoUse]

NoResource ==
  [state |-> "none", kind |-> "none", size |-> 0, heap |-> "none", lastUse |-> NoUses]

\* a released resource: its memory is back in the heap, its record is kept
Freed(res) == [res EXCEPT !.state = "freed"]

HasLastUse(res) == \E q \in QueueIds : res.lastUse[q] # NoUse

\* the lowest free slot of the catalogue
FreeSlot == CHOOSE r \in Resources :
              resources[r].state = "none" /\ \A s \in Resources : s < r => resources[s].state # "none"

HasFreeSlot == \E r \in Resources : resources[r].state = "none"

\* memory::Heaps: the heap a usage class is served from
HeapFor(kind) == IF kind = "staging" THEN "host" ELSE "device"

\* a bug: the request is granted whenever the heap has any room left
CanAllocate_any_room(hs, kind, size) == hs[HeapFor(kind)] < HeapTotal

\* Heaps::allocate succeeds only within the heap's capacity
CanAllocate(hs, kind, size) == hs[HeapFor(kind)] + size <= HeapTotal

Allocate(hs, kind, size) == [hs EXCEPT ![HeapFor(kind)] = @ + size]

Free(hs, res) == [hs EXCEPT ![res.heap] = @ - res.size]

NewResource(kind, size) ==
  [state |-> "live", kind |-> kind, size |-> size, heap |-> HeapFor(kind), lastUse |-> NoUses]

\* a bug: one record for the resource, the records of the other queues are dropped
RecordUse_single(res, q, e) ==
  [res EXCEPT !.lastUse = [x \in QueueIds |-> IF x = q THEN Max(res.lastUse[q], e) ELSE NoUse]]

\* record_use: the record of the queue becomes the greater of the old and the new epoch
RecordUse(res, q, e) == [res EXCEPT !.lastUse[q] = Max(@, e)]

\* a bug: one queue with a completed last use is enough
Reclaimable_any_queue(res, complete) ==
  \E q \in QueueIds : res.lastUse[q] # NoUse /\ EpochOf(complete, q) >= res.lastUse[q]

\* completed >= last-use for every queue that referenced the resource
Reclaimable(res, complete) ==
  \A q \in QueueIds : res.lastUse[q] # NoUse => EpochOf(complete, q) >= res.lastUse[q]

\* a destroy request: immediate without a last-use record, queued otherwise
DestroyRes(rs, r) ==
  [rs EXCEPT ![r] = IF HasLastUse(@) THEN [@ EXCEPT !.state = "pending"] ELSE Freed(@)]

DestroyHeaps(hs, rs, r) == IF HasLastUse(rs[r]) THEN hs ELSE Free(hs, rs[r])

\* the set of resources a cleanup pass releases
Released(rs, complete) ==
  {r \in Resources : rs[r].state = "pending" /\ Reclaimable(rs[r], complete)}

RECURSIVE FreeAll(_, _, _)
FreeAll(hs, rs, S) ==
  IF S = {} THEN hs
  ELSE LET r == CHOOSE x \in S : TRUE IN FreeAll(Free(hs, rs[r]), rs, S \ {r})

\* Resources::cleanup(device, heaps, next, complete)
Resources_cleanup_resources(rs, nxt, complete) ==
  [r \in Resources |-> IF r \in Released(rs, complete) THEN Freed(rs[r]) ELSE rs[r]]

\* a bug: the released resources' memory is not returned to the heaps
Resources_cleanup_heaps_leak(hs, rs, nxt, complete) == hs

Resources_cleanup_heaps(hs, rs, nxt, complete) == FreeAll(hs, rs, Released(rs, complete))

----------------------------------------------------------------------------
NoCall == [name |-> "none"]

\* factory.rs 174-190: the fields of a Factory as Factory::init builds them
InitFactory ==
  /\ next_epoch = [i \in FamilyIndices |-> [k \in QueueIndices(i) |-> 0]]
  /\ epochs = [i \in FamilyIndices |-> [k \in QueueIndices(i) |-> 0]]
  /\ fences = [f \in Fences |-> [state |-> "none", epoch |-> NoEpoch]]
  /\ resources = [r \in Resources |-> NoResource]
  /\ heaps = [h \in HeapIds |-> 0]
  /\ uploads = [i \in FamilyIndices |-> [pending |-> <<>>, inflight |-> {}]]
  /\ heaps_lock = NoThread
  /\ resources_lock = {}
  /\ epochs_lock = [i \in FamilyIndices |-> NoThread]
  /\ gpu_done = [i \in FamilyIndices |-> [k \in QueueIndices(i) |-> 0]]

\* the state after the process's Factory has been constructed: no call is in progress
Init ==
  /\ InitFactory
  /\ pc = [t \in Threads |-> "idle"]
  /\ call = [t \in Threads |-> NoCall]
  /\ FACTORY_ID = 1
  /\ constructed = 1

----------------------------------------------------------------------------
(***************************************************************************)
(* Resource creation and destruction.                                      *)
(***************************************************************************)

\* factory.rs 204-215: the heaps are locked, then the registry creates the buffer
create_buffer(size) ==
  /\ HasFreeSlot
  /\ IF CanAllocate(heaps, "buffer", size)
       THEN /\ resources' = [resources EXCEPT ![FreeSlot] = NewResource("buffer", size)]
            /\ heaps' = Allocate(heaps, "buffer", size)
       ELSE UNCHANGED <<resources, heaps>>
  /\ UNCHANGED <<next_epoch, epochs, fences, uploads>>

\* factory.rs 210-214: the Result create_buffer hands back from the registry
create_buffer_ret(size) ==
  IF CanAllocate(heaps, "buffer", size) THEN "Ok" ELSE "OutOfMemory"

\* factory.rs 217-240
create_image(size) ==
  /\ HasFreeSlot
  /\ IF CanAllocate(heaps, "image", size)
       THEN /\ resources' = [resources EXCEPT ![FreeSlot] = NewResource("image", size)]
            /\ heaps' = Allocate(heaps, "image", size)
       ELSE UNCHANGED <<resources, heaps>>
  /\ UNCHANGED <<next_epoch, epochs, fences, uploads>>

\* resources the caller holds: live buffers and images (staging buffers belong to the uploader)
CallerOwned(r) ==
  resources[r].state = "live" /\ resources[r].kind \in {"buffer", "image"}

\* record_use(resource, queue, epoch), for an epoch the queue has issued or will issue next
record_use(r, q, e) ==
  /\ CallerOwned(r)
  /\ e \in 0 .. Next_of(q)
  /\ resources' = [resources EXCEPT ![r] = RecordUse(@, q, e)]
  /\ UNCHANGED <<next_epoch, epochs, fences, heaps, uploads>>

\* a bug: every destroy request releases the memory at once
destroy_immediately(r) ==
  /\ CallerOwned(r)
  /\ resources' = [resources EXCEPT ![r] = Freed(@)]
  /\ heaps' = Free(heaps, resources[r])
  /\ UNCHANGED <<next_epoch, epochs, fences, uploads>>

\* a bug: every destroy request is queued, also without a last-use record
destroy_always_queued(r) ==
  /\ CallerOwned(r)
  /\ resources' = [resources EXCEPT ![r].state = "pending"]
  /\ UNCHANGED <<next_epoch, epochs, fences, heaps, uploads>>

\* the caller's destroy request
destroy(r) ==
  /\ CallerOwned(r)
  /\ resources' = DestroyRes(resources, r)
  /\ heaps' = DestroyHeaps(heaps, resources, r)
  /\ UNCHANGED <<next_epoch, epochs, fences, uploads>>

----------------------------------------------------------------------------
(***************************************************************************)
(* Submission and fences.                                                  *)
(***************************************************************************)

NoFence == 0

\* a bug: the submission keeps the epoch counter where it was
submit_keeps_epoch(q, f) ==
  /\ f \in Fences => fences[f].state = "unsignaled"
  /\ UNCHANGED <<next_epoch, epochs, resources, heaps, uploads>>
  /\ fences' = IF f \in Fences
                 THEN [fences EXCEPT ![f] = [state |-> "submitted",
                                             epoch |-> [queue |-> q, epoch |-> Next_of(q)]]]
                 ELSE fences

\* one submission through queue q, with an optional fence bound to the submission's epoch
submit(q, f) ==
  /\ f \in Fences => fences[f].state = "unsignaled"
  /\ UNCHANGED <<epochs, resources, heaps, uploads>>
  /\ next_epoch' = [next_epoch EXCEPT ![families_indices[q.family]][q.index] = @ + 1]
  /\ fences' = IF f \in Fences
                 THEN [fences EXCEPT ![f] = [state |-> "submitted",
                                             epoch |-> [queue |-> q, epoch |-> Next_of(q)]]]
                 ELSE fences

HasFreeFence == \E f \in Fences : fences[f].state = "none"

FreeFence == CHOOSE f \in Fences :
               fences[f].state = "none" /\ \A g \in Fences : g < f => fences[g].state # "none"

\* factory.rs 469-472
create_fence(signaled) ==
  /\ HasFreeFence
  /\ fences' = [fences EXCEPT ![FreeFence] =
                  [state |-> IF signaled THEN "signaled" ELSE "unsignaled", epoch |-> NoEpoch]]
  /\ UNCHANGED <<next_epoch, epochs, resources, heaps, uploads>>

MarkReset(fs, f) == [fs EXCEPT ![f] = [state |-> "unsignaled", epoch |-> NoEpoch]]

MarkSignaled(fs, f) == [fs EXCEPT ![f] = [state |-> "signaled", epoch |-> NoEpoch]]

\* factory.rs 474-477; ok is the device's answer
reset_fence(f, ok) ==
  /\ fences[f].state = "signaled"
  /\ fences' = IF ok THEN MarkReset(fences, f) ELSE fences
  /\ UNCHANGED <<next_epoch, epochs, resources, heaps, uploads>>

\* a bug: the fences are reset without the assertion that each is signaled
reset_fences_unchecked(S, ok) ==
  /\ S # {}
  /\ fences' = IF ok THEN [f \in Fences |-> IF f \in S THEN MarkReset(fences, f)[f] ELSE fences[f]]
                     ELSE fences
  /\ UNCHANGED <<next_epoch, epochs, resources, heaps, uploads>>

\* a bug: the fences are marked reset before the device has answered
reset_fences_marks_first(S, ok) ==
  /\ S # {}
  /\ \A f \in S : fences[f].state = "signaled"
  /\ fences' = [f \in Fences |-> IF f \in S THEN MarkReset(fences, f)[f] ELSE fences[f]]
  /\ UNCHANGED <<next_epoch, epochs, resources, heaps, uploads>>

\* factory.rs 484-497: the outcome of reset_fences
reset_fences_ret(S, ok) ==
  IF \E f \in S : fences[f].state # "signaled" THEN "panic"
  ELSE IF ok THEN "Ok" ELSE "Err"

\* factory.rs 479-498: every fence is asserted signaled, the device resets, then all are marked
reset_fences(S, ok) ==
  /\ S # {}
  /\ \A f \in S : fences[f].state = "signaled"
  /\ fences' = IF ok THEN [f \in Fences |-> IF f \in S THEN MarkReset(fences, f)[f] ELSE fences[f]]
                     ELSE fences
  /\ UNCHANGED <<next_epoch, epochs, resources, heaps, uploads>>

\* a bug: the family id is used where the family's index is meant
Advance_by_family_id(ep, fe) ==
  [ep EXCEPT ![fe.queue.family][fe.queue.index] = Max(@, fe.epoch)]

\* a bug: the fence's epoch overwrites the counter
Advance_overwrite(ep, fe) ==
  [ep EXCEPT ![families_indices[fe.queue.family]][fe.queue.index] = fe.epoch]

\* a bug: the counter moves past the fence's epoch
Advance_past(ep, fe) ==
  [ep EXCEPT ![families_indices[fe.queue.family]][fe.queue.index] = Max(@, fe.epoch + 1)]

\* factory.rs 508-511 (and 556-560, 570-574): *epoch = max(*epoch, fence_epoch.epoch)
Advance(ep, fe) ==
  [ep EXCEPT ![families_indices[fe.queue.family]][fe.queue.index] = Max(@, fe.epoch)]

WaitResults == {"signaled", "timeout", "err"}

DeviceWaits == {"ok", "timeout", "err"}

\* a bug: every answer but an error is taken for a signal
wait_for_fence_ignores_timeout(f, res) ==
  /\ fences[f].state = "submitted"
  /\ IF res # "err"
       THEN /\ fences' = MarkSignaled(fences, f)
            /\ epochs' = Advance(epochs, fences[f].epoch)
       ELSE UNCHANGED <<fences, epochs>>
  /\ UNCHANGED <<next_epoch, resources, heaps, uploads>>

\* factory.rs 500-517; res is what Fence::wait_signaled gets from the device
wait_for_fence(f, res) ==
  /\ fences[f].state = "submitted"
  /\ IF res = "signaled"
       THEN /\ fences' = MarkSignaled(fences, f)
            /\ epochs' = Advance(epochs, fences[f].epoch)
       ELSE UNCHANGED <<fences, epochs>>
  /\ UNCHANGED <<next_epoch, resources, heaps, uploads>>

\* factory.rs 506-516: the value wait_for_fence returns
wait_for_fence_ret(res) ==
  IF res = "signaled" THEN "Ok(true)" ELSE IF res = "timeout" THEN "Ok(false)" ELSE "Err"

Submitted == {f \in Fences : fences[f].state = "submitted"}

\* the fence lists a caller can pass: distinct fences that carry an epoch
FenceLists ==
  {s \in UNION {[1 .. n -> Submitted] : n \in 1 .. Cardinality(Submitted)} :
     \A i, j \in DOMAIN s : i # j => s[i] # s[j]}

FenceStatus == {"signaled", "unsignaled", "err"}

\* a bug: the loop stops at the first fence found signaled
RECURSIVE WaitAny_first(_, _, _, _, _)
WaitAny_first(fs, ep, list, st, i) ==
  IF i > Len(list) THEN [fences |-> fs, epochs |-> ep]
  ELSE IF st[i] = "err" THEN [fences |-> fs, epochs |-> ep]
  ELSE IF st[i] = "signaled"
    THEN [fences |-> MarkSignaled(fs, list[i]), epochs |-> Advance(ep, fs[list[i]].epoch)]
    ELSE WaitAny_first(fs, ep, list, st, i + 1)

\* a bug: every fence of the list is marked and folded in, whatever its status
RECURSIVE WaitAny_trusts_wait(_, _, _, _, _)
WaitAny_trusts_wait(fs, ep, list, st, i) ==
  IF i > Len(list) THEN [fences |-> fs, epochs |-> ep]
  ELSE WaitAny_trusts_wait(MarkSignaled(fs, list[i]), Advance(ep, fs[list[i]].epoch),
                           list, st, i + 1)

\* a bug: a failed status query is passed over and the loop goes on
RECURSIVE WaitAny_skips_error(_, _, _, _, _)
WaitAny_skips_error(fs, ep, list, st, i) ==
  IF i > Len(list) THEN [fences |-> fs, epochs |-> ep]
  ELSE IF st[i] = "signaled"
    THEN WaitAny_skips_error(MarkSignaled(fs, list[i]), Advance(ep, fs[list[i]].epoch),
                             list, st, i + 1)
    ELSE WaitAny_skips_error(fs, ep, list, st, i + 1)

\* factory.rs 549-563: each fence's status is queried; a signaled one is marked and folded in
RECURSIVE WaitAny(_, _, _, _, _)
WaitAny(fs, ep, list, st, i) ==
  IF i > Len(list) THEN [fences |-> fs, epochs |-> ep]
  ELSE IF st[i] = "err" THEN [fences |-> fs, epochs |-> ep]
  ELSE IF st[i] = "signaled"
    THEN WaitAny(MarkSignaled(fs, list[i]), Advance(ep, fs[list[i]].epoch), list, st, i + 1)
    ELSE WaitAny(fs, ep, list, st, i + 1)

\* a bug: only the first fence of the list is marked and folded in
RECURSIVE WaitAll_first(_, _, _, _)
WaitAll_first(fs, ep, list, i) ==
  IF i > Len(list) \/ i > 1 THEN [fences |-> fs, epochs |-> ep]
  ELSE WaitAll_first(MarkSignaled(fs, list[i]), Advance(ep, fs[list[i]].epoch), list, i + 1)

\* factory.rs 564-576: every fence is marked and folded in
RECURSIVE WaitAll(_, _, _, _)
WaitAll(fs, ep, list, i) ==
  IF i > Len(list) THEN [fences |-> fs, epochs |-> ep]
  ELSE WaitAll(MarkSignaled(fs, list[i]), Advance(ep, fs[list[i]].epoch), list, i + 1)

\* the status vectors the device can answer with: read only under the Any policy after
\* a successful combined wait, when at least one fence of the list is signaled
Statuses(list, wait_for, dev) ==
  IF wait_for = "Any" /\ dev = "ok"
    THEN {st \in [DOMAIN list -> FenceStatus] : \E i \in DOMAIN list : st[i] = "signaled"}
    ELSE {[i \in DOMAIN list |-> "signaled"]}

\* factory.rs 519-579; dev is the combined device wait, st the per-fence status queries
wait_for_fences(list, wait_for, dev, st) ==
  /\ list \in FenceLists
  /\ st \in Statuses(list, wait_for, dev)
  /\ IF dev = "ok"
       THEN LET after == IF wait_for = "Any" THEN WaitAny(fences, epochs, list, st, 1)
                                             ELSE WaitAll(fences, epochs, list, 1)
            IN /\ fences' = after.fences
               /\ epochs' = after.epochs
       ELSE UNCHANGED <<fences, epochs>>
  /\ UNCHANGED <<next_epoch, resources, heaps, uploads>>

\* factory.rs 531-538, 551, 578: the value wait_for_fences returns
wait_for_fences_ret(list, wait_for, dev, st) ==
  IF dev = "err" THEN "Err"
  ELSE IF dev = "timeout" THEN "Ok(false)"
  ELSE IF wait_for = "Any" /\ \E i \in DOMAIN list : st[i] = "err" THEN "Err"
  ELSE "Ok(true)"

----------------------------------------------------------------------------
(***************************************************************************)
(* Upload pipeline.                                                        *)
(***************************************************************************)

\* Uploader::upload_buffer / upload_image: the staging record is queued for the family
\* and both the staging buffer and the destination are tagged with the queue's next epoch
Uploader_upload(ups, index, staging, dest, q, e) ==
  [ups EXCEPT ![index].pending =
     Append(@, [staging |-> staging, dest |-> dest, queue |-> q, epoch |-> e])]

WriteResults == {"ok", "err"}

\* a bug: the family's id is used where the index of its upload state is meant
Upload_by_family_id(dest, content_size, q, write) ==
  LET family_index == q.family
      staging == FreeSlot
      e == Next_of(q)
  IN /\ HasFreeSlot
     /\ IF ~CanAllocate(heaps, "staging", content_size)
          THEN UNCHANGED <<resources, heaps, uploads>>
          ELSE IF write = "err"
            THEN /\ resources' = [resources EXCEPT ![staging] = Freed(NewResource("staging", content_size))]
                 /\ UNCHANGED <<heaps, uploads>>
            ELSE /\ resources' =
                      [resources EXCEPT
                         ![staging] = RecordUse(NewResource("staging", content_size), q, e),
                         ![dest] = RecordUse(@, q, e)]
                 /\ heaps' = Allocate(heaps, "staging", content_size)
                 /\ uploads' = Uploader_upload(uploads, family_index, staging, dest, q, e)
     /\ UNCHANGED <<next_epoch, epochs, fences>>

\* a bug: the copy is recorded before the content is written, also when the write fails
Upload_records_first(dest, content_size, q, write) ==
  LET family_index == families_indices[q.family]
      staging == FreeSlot
      e == Next_of(q)
  IN /\ HasFreeSlot
     /\ IF ~CanAllocate(heaps, "staging", content_size)
          THEN UNCHANGED <<resources, heaps, uploads>>
          ELSE /\ resources' =
                    [resources EXCEPT
                       ![staging] = RecordUse(NewResource("staging", content_size), q, e),
                       ![dest] = RecordUse(@, q, e)]
               /\ heaps' = Allocate(heaps, "staging", content_size)
               /\ uploads' = Uploader_upload(uploads, family_index, staging, dest, q, e)
     /\ UNCHANGED <<next_epoch, epochs, fences>>

\* factory.rs 312-325 and 363-380: staging buffer, host write, then the family's uploader
Upload(dest, content_size, q, write) ==
  LET family_index == families_indices[q.family]
      staging == FreeSlot
      e == Next_of(q)
  IN /\ HasFreeSlot
     /\ IF ~CanAllocate(heaps, "staging", content_size)
          THEN UNCHANGED <<resources, heaps, uploads>>
          ELSE IF write = "err"
            THEN /\ resources' = [resources EXCEPT ![staging] = Freed(NewResource("staging", content_size))]
                 /\ UNCHANGED <<heaps, uploads>>
            ELSE /\ resources' =
                      [resources EXCEPT
                         ![staging] = RecordUse(NewResource("staging", content_size), q, e),
                         ![dest] = RecordUse(@, q, e)]
                 /\ heaps' = Allocate(heaps, "staging", content_size)
                 /\ uploads' = Uploader_upload(uploads, family_index, staging, dest, q, e)
     /\ UNCHANGED <<next_epoch, epochs, fences>>

\* factory.rs 312-325: what upload_buffer and upload_image return once the checks passed
Upload_ret(content_size, write) ==
  IF ~CanAllocate(heaps, "staging", content_size) THEN "OutOfMemory"
  ELSE IF write = "err" THEN "Err" ELSE "Ok"

\* factory.rs 303-326
upload_buffer(buffer, content_size, q, write) ==
  /\ resources[buffer].state = "live" /\ resources[buffer].kind = "buffer"
  /\ Upload(buffer, content_size, q, write)

\* format_desc of the image's format: bits per block and the block's dimensions in texels
FormatDescs == {[bits |-> 8, dim |-> <<1, 1>>], [bits |-> 16, dim |-> <<2, 1>>]}

\* image_extent: the extents of the regions a caller uploads
Extents == {[width |-> w, height |-> 1, depth |-> 1] : w \in 1 .. HeapTotal}

\* factory.rs 354-357: texels_count and total_bytes of the region
TotalBytes(format_desc, image_extent) ==
  LET texels_count == (image_extent.width \div format_desc.dim[1])
                        * (image_extent.height \div format_desc.dim[2])
                        * image_extent.depth
  IN (format_desc.bits \div 8) * texels_count

\* a bug: the content's size is not compared with the region's
upload_image_unchecked(image, total_bytes, content_size, q, write) ==
  /\ resources[image].state = "live" /\ resources[image].kind = "image"
  /\ Upload(image, content_size, q, write)

\* factory.rs 335-381: the content must have the byte size of the image region; the
\* assertion at 358-361 aborts the call before the staging buffer is created
upload_image(image, total_bytes, content_size, q, write) ==
  /\ resources[image].state = "live" /\ resources[image].kind = "image"
  /\ IF total_bytes # content_size
       THEN UNCHANGED vars
       ELSE Upload(image, content_size, q, write)

\* factory.rs 358-381: the outcome of upload_image
upload_image_ret(total_bytes, content_size, write) ==
  IF total_bytes # content_size THEN "panic" ELSE Upload_ret(content_size, write)

\* a bug: every in-flight staging buffer is dropped, whatever its epoch
StagingDone_all(index) == uploads[index].inflight

\* Uploader cleanup: in-flight staging buffers whose epoch has completed
StagingDone(index) ==
  {s \in uploads[index].inflight : Reclaimable(resources[s], epochs)}

RECURSIVE DestroyAll(_, _)
DestroyAll(rs, S) ==
  IF S = {} THEN rs
  ELSE LET r == CHOOSE x \in S : TRUE IN DestroyAll(DestroyRes(rs, r), S \ {r})

\* a bug: the pending copies are flushed before the completed staging buffers are released
family_mut_flushes_first(id) ==
  LET family_index == families_indices[id]
      flushed == {uploads[family_index].pending[i].staging :
                    i \in DOMAIN uploads[family_index].pending}
      done == {s \in uploads[family_index].inflight \cup flushed :
                 Reclaimable(resources[s], epochs)}
  IN /\ resources' = DestroyAll(resources, done)
     /\ uploads' = [uploads EXCEPT ![family_index] =
                      [pending |-> <<>>, inflight |-> (@.inflight \cup flushed) \ done]]
     /\ UNCHANGED <<next_epoch, epochs, fences, heaps>>

\* a bug: the flush leaves the flushed copies in the pending list
family_mut_keeps_pending(id) ==
  LET family_index == families_indices[id]
      done == StagingDone(family_index)
      flushed == {uploads[family_index].pending[i].staging :
                    i \in DOMAIN uploads[family_index].pending}
  IN /\ resources' = DestroyAll(resources, done)
     /\ uploads' = [uploads EXCEPT ![family_index].inflight = (@ \ done) \cup flushed]
     /\ UNCHANGED <<next_epoch, epochs, fences, heaps>>

\* factory.rs 430-442: the family's uploader cleans up, then flushes
family_mut(id) ==
  LET family_index == families_indices[id]
      done == StagingDone(family_index)
      flushed == {uploads[family_index].pending[i].staging :
                    i \in DOMAIN uploads[family_index].pending}
  IN /\ resources' = DestroyAll(resources, done)
     /\ uploads' = [uploads EXCEPT ![family_index] =
                      [pending |-> <<>>, inflight |-> (@.inflight \ done) \cup flushed]]
     /\ UNCHANGED <<next_epoch, epochs, fences, heaps>>

----------------------------------------------------------------------------
(***************************************************************************)
(* Cleanup.                                                                *)
(***************************************************************************)

\* a bug: after the pass every queue's submitted work is taken as complete
cleanup_marks_complete ==
  LET nxt == next_epochs
      complete == complete_epochs
  IN /\ resources' = Resources_cleanup_resources(resources, nxt, complete)
     /\ heaps' = Resources_cleanup_heaps(heaps, resources, nxt, complete)
     /\ epochs' = nxt
     /\ UNCHANGED <<next_epoch, fences, uploads>>

\* factory.rs 627-636
cleanup ==
  LET nxt == next_epochs
      complete == complete_epochs
  IN /\ resources' = Resources_cleanup_resources(resources, nxt, complete)
     /\ heaps' = Resources_cleanup_heaps(heaps, resources, nxt, complete)
     /\ UNCHANGED <<next_epoch, epochs, fences, uploads>>

----------------------------------------------------------------------------
(***************************************************************************)
(* Concurrent callers.  A call is a sequence of steps of its thread: the   *)
(* call itself, which takes the Factory by `&self` or by `&mut self`, each *)
(* lock it takes, the work under the locks, and the return that drops the  *)
(* guards.                                                                 *)
(***************************************************************************)

\* the methods that take the Factory by `&mut self` (factory.rs 432, 628)
MutCalls == {"family_mut", "cleanup"}

InCall(t) == pc[t] # "idle"

\* a bug: every method takes the Factory by `&self`
CanBorrow_all_shared(t, exclusive) == TRUE

\* the receiver of a method: a call through `&mut self` starts when no other thread is
\* in a call, a call through `&self` when no call through `&mut self` is in progress
CanBorrow(t, exclusive) ==
  IF exclusive THEN \A u \in Threads \ {t} : pc[u] = "idle"
               ELSE \A u \in Threads \ {t} : call[u].name \notin MutCalls

\* the creation calls in progress
Creating == {t \in Threads : call[t].name \in {"create_buffer", "create_image"}}

\* factory.rs 205-210: thread t calls create_buffer
create_buffer_call(t, size) ==
  /\ pc[t] = "idle" /\ CanBorrow(t, FALSE)
  /\ pc' = [pc EXCEPT ![t] = "heaps.lock"]
  /\ call' = [call EXCEPT ![t] = [name |-> "create_buffer", size |-> size]]
  /\ UNCHANGED <<vars, heaps_lock, resources_lock, epochs_lock, FACTORY_ID, constructed, gpu_done>>

\* factory.rs 218-227: thread t calls create_image
create_image_call(t, size) ==
  /\ pc[t] = "idle" /\ CanBorrow(t, FALSE)
  /\ pc' = [pc EXCEPT ![t] = "heaps.lock"]
  /\ call' = [call EXCEPT ![t] = [name |-> "create_image", size |-> size]]
  /\ UNCHANGED <<vars, heaps_lock, resources_lock, epochs_lock, FACTORY_ID, constructed, gpu_done>>

\* a bug: the heaps are used without waiting for the mutex
heaps_lock_acquire_unguarded(t) ==
  /\ pc[t] = "heaps.lock"
  /\ heaps_lock' = t
  /\ pc' = [pc EXCEPT ![t] = "resources.read"]
  /\ UNCHANGED <<vars, call, resources_lock, epochs_lock, FACTORY_ID, constructed, gpu_done>>

\* factory.rs 211 and 228: let mut heaps = self.heaps.lock()
heaps_lock_acquire(t) ==
  /\ pc[t] = "heaps.lock"
  /\ heaps_lock = NoThread
  /\ heaps_lock' = t
  /\ pc' = [pc EXCEPT ![t] = "resources.read"]
  /\ UNCHANGED <<vars, call, resources_lock, epochs_lock, FACTORY_ID, constructed, gpu_done>>

\* factory.rs 212-213 and 229: self.resources.read(); no thread ever holds the write
\* guard, the methods that change the catalogue's structure reach it by get_mut
resources_read(t) ==
  /\ pc[t] = "resources.read"
  /\ resources_lock' = resources_lock \cup {t}
  /\ pc' = [pc EXCEPT ![t] = "create"]
  /\ UNCHANGED <<vars, call, heaps_lock, epochs_lock, FACTORY_ID, constructed, gpu_done>>

\* factory.rs 214 and 229-239: the registry creates the resource from the locked heaps
registry_create(t) ==
  /\ pc[t] = "create"
  /\ IF call[t].name = "create_buffer" THEN create_buffer(call[t].size)
                                       ELSE create_image(call[t].size)
  /\ pc' = [pc EXCEPT ![t] = "return"]
  /\ UNCHANGED <<call, heaps_lock, resources_lock, epochs_lock, FACTORY_ID, constructed, gpu_done>>

\* factory.rs 215 and 240: the call returns and both guards are dropped
create_return(t) ==
  /\ pc[t] = "return" /\ t \in Creating
  /\ heaps_lock' = IF heaps_lock = t THEN NoThread ELSE heaps_lock
  /\ resources_lock' = resources_lock \ {t}
  /\ pc' = [pc EXCEPT ![t] = "idle"]
  /\ call' = [call EXCEPT ![t] = NoCall]
  /\ UNCHANGED <<vars, epochs_lock, FACTORY_ID, constructed, gpu_done>>

\* factory.rs 628: thread t calls cleanup
cleanup_call(t) ==
  /\ pc[t] = "idle" /\ CanBorrow(t, TRUE)
  /\ pc' = [pc EXCEPT ![t] = "cleanup"]
  /\ call' = [call EXCEPT ![t] = [name |-> "cleanup"]]
  /\ UNCHANGED <<vars, heaps_lock, resources_lock, epochs_lock, FACTORY_ID, constructed, gpu_done>>

\* factory.rs 629-636: the pass, on the fields reached by get_mut, and the return
cleanup_pass(t) ==
  /\ pc[t] = "cleanup"
  /\ cleanup
  /\ pc' = [pc EXCEPT ![t] = "idle"]
  /\ call' = [call EXCEPT ![t] = NoCall]
  /\ UNCHANGED <<heaps_lock, resources_lock, epochs_lock, FACTORY_ID, constructed, gpu_done>>

CleanupRunning == \E t \in Threads : call[t].name = "cleanup"

\* a destroy request made by a resource's owner: the destroy queue is not touched
\* during a cleanup pass, and an immediate release needs the heaps
destroy_request(r) ==
  /\ ~CleanupRunning
  /\ ~HasLastUse(resources[r]) => heaps_lock = NoThread
  /\ destroy(r)
  /\ UNCHANGED callers

----------------------------------------------------------------------------
(***************************************************************************)
(* Concurrent fence waits: wait_for_fences step by step.                   *)
(***************************************************************************)

\* the fences a thread's call in progress has borrowed (&mut Fence)
Borrowed(t) ==
  IF call[t].name = "wait_for_fences" THEN {call[t].list[i] : i \in DOMAIN call[t].list}
                                      ELSE {}

\* the epochs locks a thread's call holds in its epoch_locks vector
EpochLocksOf(t) == {i \in FamilyIndices : epochs_lock[i] = t}

\* a bug: epoch_locks gets the slots of the first fence's family only
RECURSIVE EpochLockSlots_first(_, _, _)
EpochLockSlots_first(list, i, len) ==
  IF i > Len(list) \/ i > 1 THEN len
  ELSE LET family_index == families_indices[fences[list[i]].epoch.queue.family]
       IN EpochLockSlots_first(list, i + 1, IF family_index >= len THEN family_index + 1 ELSE len)

\* factory.rs 540-546: for every fence, None is pushed while its family's index is not
\* below the length of epoch_locks
RECURSIVE EpochLockSlots(_, _, _)
EpochLockSlots(list, i, len) ==
  IF i > Len(list) THEN len
  ELSE LET family_index == families_indices[fences[list[i]].epoch.queue.family]
       IN EpochLockSlots(list, i + 1, IF family_index >= len THEN family_index + 1 ELSE len)

\* factory.rs 520-538: the fences are collected and the device waits for them; without
\* a signal the call returns before it takes a lock
wait_for_fences_call(t, list, wait_for, dev) ==
  /\ pc[t] = "idle" /\ CanBorrow(t, FALSE)
  /\ list \in FenceLists
  /\ \A u \in Threads \ {t} : \A i \in DOMAIN list : list[i] \notin Borrowed(u)
  /\ IF dev = "ok"
       THEN /\ pc' = [pc EXCEPT ![t] = "fences.next"]
            /\ call' = [call EXCEPT ![t] =
                          [name |-> "wait_for_fences", list |-> list, wait_for |-> wait_for,
                           i |-> 1, epoch |-> NoEpoch, panicked |-> FALSE,
                           epoch_locks |-> [k \in 0 .. (EpochLockSlots(list, 1, 0) - 1) |-> FALSE]]]
       ELSE UNCHANGED <<pc, call>>
  /\ UNCHANGED <<vars, heaps_lock, resources_lock, epochs_lock, FACTORY_ID, constructed, gpu_done>>

\* factory.rs 549-555 and 565-570: the next fence of the list; under Any its status is
\* queried first, an error returns, an unsignaled fence is passed over; the fence is
\* marked signaled and hands its epoch over
wait_for_fences_next(t, st) ==
  /\ pc[t] = "fences.next"
  /\ LET c == call[t]
         f == c.list[c.i]
     IN IF c.i > Len(c.list)
          THEN /\ pc' = [pc EXCEPT ![t] = "return"]
               /\ UNCHANGED <<call, fences>>
        ELSE IF c.wait_for = "Any" /\ st = "err"
          THEN /\ pc' = [pc EXCEPT ![t] = "return"]
               /\ UNCHANGED <<call, fences>>
        ELSE IF c.wait_for = "Any" /\ st = "unsignaled"
          THEN /\ call' = [call EXCEPT ![t].i = @ + 1]
               /\ UNCHANGED <<pc, fences>>
          ELSE /\ fences' = MarkSignaled(fences, f)
               /\ call' = [call EXCEPT ![t].epoch = fences[f].epoch]
               /\ pc' = [pc EXCEPT ![t] = "epochs.write"]
  /\ UNCHANGED <<next_epoch, epochs, resources, heaps, uploads>>
  /\ UNCHANGED <<heaps_lock, resources_lock, epochs_lock, FACTORY_ID, constructed, gpu_done>>

\* a bug: the family's write guard is taken for every fence, also when the call holds it
wait_for_fences_fold_relocks(t) ==
  /\ pc[t] = "epochs.write"
  /\ LET c == call[t]
         family_index == families_indices[c.epoch.queue.family]
     IN IF family_index \notin DOMAIN c.epoch_locks
          THEN /\ call' = [call EXCEPT ![t].panicked = TRUE]
               /\ pc' = [pc EXCEPT ![t] = "return"]
               /\ UNCHANGED <<epochs_lock, epochs>>
          ELSE /\ epochs_lock[family_index] = NoThread
               /\ epochs_lock' = [epochs_lock EXCEPT ![family_index] = t]
               /\ epochs' = Advance(epochs, c.epoch)
               /\ call' = [call EXCEPT ![t].i = @ + 1, ![t].epoch = NoEpoch,
                                       ![t].epoch_locks[family_index] = TRUE]
               /\ pc' = [pc EXCEPT ![t] = "fences.next"]
  /\ UNCHANGED <<next_epoch, fences, resources, heaps, uploads>>
  /\ UNCHANGED <<heaps_lock, resources_lock, FACTORY_ID, constructed, gpu_done>>

\* factory.rs 555-560 and 570-574: epoch_locks[family_index] panics out of range; its
\* slot is filled by get_or_insert_with, which takes the family's write guard only when
\* the slot is empty and keeps it there; then the counter is folded in
wait_for_fences_fold(t) ==
  /\ pc[t] = "epochs.write"
  /\ LET c == call[t]
         family_index == families_indices[c.epoch.queue.family]
     IN IF family_index \notin DOMAIN c.epoch_locks
          THEN /\ call' = [call EXCEPT ![t].panicked = TRUE]
               /\ pc' = [pc EXCEPT ![t] = "return"]
               /\ UNCHANGED <<epochs_lock, epochs>>
          ELSE /\ ~c.epoch_locks[family_index] => epochs_lock[family_index] = NoThread
               /\ epochs_lock' = [epochs_lock EXCEPT ![family_index] = t]
               /\ epochs' = Advance(epochs, c.epoch)
               /\ call' = [call EXCEPT ![t].i = @ + 1, ![t].epoch = NoEpoch,
                                       ![t].epoch_locks[family_index] = TRUE]
               /\ pc' = [pc EXCEPT ![t] = "fences.next"]
  /\ UNCHANGED <<next_epoch, fences, resources, heaps, uploads>>
  /\ UNCHANGED <<heaps_lock, resources_lock, FACTORY_ID, constructed, gpu_done>>

\* factory.rs 551 and 578-579: the call returns and epoch_locks drops its guards
wait_for_fences_return(t) ==
  /\ pc[t] = "return" /\ call[t].name = "wait_for_fences"
  /\ epochs_lock' = [i \in FamilyIndices |-> IF epochs_lock[i] = t THEN NoThread ELSE epochs_lock[i]]
  /\ pc' = [pc EXCEPT ![t] = "idle"]
  /\ call' = [call EXCEPT ![t] = NoCall]
  /\ UNCHANGED <<vars, heaps_lock, resources_lock, FACTORY_ID, constructed, gpu_done>>

----------------------------------------------------------------------------
(***************************************************************************)
(* Construction: Factory::init and the process-wide counter.               *)
(***************************************************************************)

\* factory.rs 23: the process starts with the counter at 0 and no Factory
InitProcess ==
  /\ InitFactory
  /\ pc = [t \in Threads |-> "idle"]
  /\ call = [t \in Threads |-> NoCall]
  /\ FACTORY_ID = 0
  /\ constructed = 0

Returned(result) == [name |-> "none", result |-> result]

\* the calls that are at the singleton check
AtCheck == {t \in Threads : pc[t] = "singleton check"}

\* factory.rs 87-146: adapters are enumerated and the device is opened; without an
\* adapter (94) or a device (146) the call returns the error before the check
init_call(t, opened) ==
  /\ pc[t] = "idle"
  /\ IF opened
       THEN /\ pc' = [pc EXCEPT ![t] = "singleton check"]
            /\ call' = [call EXCEPT ![t] = [name |-> "init"]]
       ELSE /\ pc' = pc
            /\ call' = [call EXCEPT ![t] = Returned("Err")]
  /\ UNCHANGED <<vars, heaps_lock, resources_lock, epochs_lock, FACTORY_ID, constructed, gpu_done>>

\* a bug: the counter is read and not advanced
init_check_load(t) ==
  /\ pc[t] = "singleton check"
  /\ FACTORY_ID' = FACTORY_ID
  /\ IF FACTORY_ID = 0
       THEN pc' = [pc EXCEPT ![t] = "construct"] /\ call' = call
       ELSE /\ pc' = [pc EXCEPT ![t] = "idle"]
            /\ call' = [call EXCEPT ![t] = Returned("panic")]
  /\ UNCHANGED <<vars, heaps_lock, resources_lock, epochs_lock, constructed, gpu_done>>

\* factory.rs 148-152: assert_eq!(FACTORY_ID.fetch_add(1, Relaxed), 0): one atomic
\* read-modify-write, and a panic when the value read is not 0
init_check(t) ==
  /\ pc[t] = "singleton check"
  /\ FACTORY_ID' = FACTORY_ID + 1
  /\ IF FACTORY_ID = 0
       THEN pc' = [pc EXCEPT ![t] = "construct"] /\ call' = call
       ELSE /\ pc' = [pc EXCEPT ![t] = "idle"]
            /\ call' = [call EXCEPT ![t] = Returned("panic")]
  /\ UNCHANGED <<vars, heaps_lock, resources_lock, epochs_lock, constructed, gpu_done>>

\* factory.rs 154-192: the families, heaps and locks are built and the Factory returned
init_construct(t) ==
  /\ pc[t] = "construct"
  /\ constructed' = constructed + 1
  /\ pc' = [pc EXCEPT ![t] = "idle"]
  /\ call' = [call EXCEPT ![t] = Returned("Ok")]
  /\ UNCHANGED <<vars, heaps_lock, resources_lock, epochs_lock, FACTORY_ID, gpu_done>>

----------------------------------------------------------------------------
(***************************************************************************)
(* The environment of the specifications.                                  *)
(***************************************************************************)

CreatedResources == {r \in Resources : resources[r].state # "none"}

CreatedFences == {f \in Fences : fences[f].state # "none"}

\* the queues the resource scenarios submit to: one of each family, one of them at index 1
ActiveQueues == {[family |-> 1, index |-> 0], [family |-> 0, index |-> 1]}

\* Spec: every operation of the Factory, and submissions through the queues
Next ==
  \/ \E size \in Sizes : Cardinality(CreatedResources) < FewRes /\ create_buffer(size) /\ UNCHANGED callers
  \/ \E size \in Sizes : Cardinality(CreatedResources) < FewRes /\ create_image(size) /\ UNCHANGED callers
  \/ \E q \in ActiveQueues, f \in Fences \cup {NoFence} :
       TotalSubmits < MaxSubmits /\ submit(q, f) /\ UNCHANGED callers
  \/ \E signaled \in BOOLEAN :
       Cardinality(CreatedFences) < FewFences /\ create_fence(signaled) /\ UNCHANGED callers
  \/ \E f \in Fences, ok \in BOOLEAN : reset_fence(f, ok) /\ UNCHANGED callers
  \/ \E S \in SUBSET Fences, ok \in BOOLEAN : reset_fences(S, ok) /\ UNCHANGED callers
  \/ \E f \in Fences, res \in WaitResults : wait_for_fence(f, res) /\ UNCHANGED callers
  \/ \E list \in FenceLists, wait_for \in {"Any", "All"}, dev \in DeviceWaits :
       \E st \in Statuses(list, wait_for, dev) : wait_for_fences(list, wait_for, dev, st) /\ UNCHANGED callers
  \/ \E buffer \in Resources, size \in Sizes, q \in ActiveQueues, write \in WriteResults :
       Cardinality(CreatedResources) < FewRes /\ upload_buffer(buffer, size, q, write) /\ UNCHANGED callers
  \/ \E image \in Resources, total \in Sizes, size \in Sizes, q \in ActiveQueues,
        write \in WriteResults :
       Cardinality(CreatedResources) < FewRes /\ upload_image(image, total, size, q, write) /\ UNCHANGED callers
  \/ \E i \in FamilyIndices : family_mut(families[i].id) /\ UNCHANGED callers
  \/ cleanup /\ UNCHANGED callers

Spec == Init /\ [][Next]_allvars

\* SpecReclaim: the life cycle of a registry resource against the epoch ledger
NextReclaim ==
  \/ \E size \in Sizes :
       Cardinality(CreatedResources) < ReclaimRes /\ create_buffer(size) /\ UNCHANGED callers
  \/ \E r \in Resources, q \in ActiveQueues, e \in 0 .. MaxSubmits : record_use(r, q, e) /\ UNCHANGED callers
  \/ \E r \in Resources : destroy(r) /\ UNCHANGED callers
  \/ \E q \in ActiveQueues, f \in Fences \cup {NoFence} :
       TotalSubmits < MaxSubmits /\ submit(q, f) /\ UNCHANGED callers
  \/ \E signaled \in BOOLEAN :
       Cardinality(CreatedFences) < FewFences /\ create_fence(signaled) /\ UNCHANGED callers
  \/ \E f \in Fences, ok \in BOOLEAN : reset_fence(f, ok) /\ UNCHANGED callers
  \/ \E f \in Fences, res \in WaitResults : wait_for_fence(f, res) /\ UNCHANGED callers
  \/ cleanup /\ UNCHANGED callers

SpecReclaim == Init /\ [][NextReclaim]_allvars

\* SpecWaits: fences and fence waits over all queues
NextWaits ==
  \/ \E q \in QueueIds, f \in Fences \cup {NoFence} :
       TotalSubmits < MaxSubmits /\ submit(q, f) /\ UNCHANGED callers
  \/ \E signaled \in BOOLEAN :
       Cardinality(CreatedFences) < WaitFences /\ create_fence(signaled) /\ UNCHANGED callers
  \/ \E f \in Fences, ok \in BOOLEAN : reset_fence(f, ok) /\ UNCHANGED callers
  \/ \E S \in SUBSET Fences, ok \in BOOLEAN : reset_fences(S, ok) /\ UNCHANGED callers
  \/ \E f \in Fences, res \in WaitResults : wait_for_fence(f, res) /\ UNCHANGED callers
  \/ \E list \in FenceLists, wait_for \in {"Any", "All"}, dev \in DeviceWaits :
       \E st \in Statuses(list, wait_for, dev) : wait_for_fences(list, wait_for, dev, st) /\ UNCHANGED callers

SpecWaits == Init /\ [][NextWaits]_allvars

\* the request sizes of SpecHeap: up to a whole heap
HeapSizes == 1 .. HeapTotal

\* SpecHeap: requests of all sizes against the heaps' capacity
NextHeap ==
  \/ \E size \in HeapSizes : Cardinality(CreatedResources) < FewRes /\ create_buffer(size) /\ UNCHANGED callers
  \/ \E size \in HeapSizes : Cardinality(CreatedResources) < FewRes /\ create_image(size) /\ UNCHANGED callers
  \/ \E r \in Resources : destroy(r) /\ UNCHANGED callers
  \/ \E buffer \in Resources, size \in HeapSizes, q \in ActiveQueues, write \in WriteResults :
       Cardinality(CreatedResources) < FewRes /\ upload_buffer(buffer, size, q, write) /\ UNCHANGED callers
  \/ \E i \in FamilyIndices : family_mut(families[i].id) /\ UNCHANGED callers
  \/ cleanup /\ UNCHANGED callers

SpecHeap == Init /\ [][NextHeap]_allvars

\* the queues in the order of the families vector
QueueSeq ==
  <<[family |-> 1, index |-> 0], [family |-> 0, index |-> 0], [family |-> 0, index |-> 1]>>

\* the queue a fence is submitted through in SpecAny: fence 1 with the first queue, and so on
FenceQueue(f) == QueueSeq[((f - 1) % Len(QueueSeq)) + 1]

\* SpecAny: fences armed on distinct queues and waited for under the Any policy
NextAny ==
  \/ Cardinality(CreatedFences) < WaitFences /\ create_fence(FALSE) /\ UNCHANGED callers
  \/ \E q \in QueueIds, f \in Fences \cup {NoFence} :
       /\ Next_of(q) < AnyEpochs
       /\ f \in Fences => FenceQueue(f) = q
       /\ submit(q, f)
       /\ UNCHANGED callers
  \/ \E list \in FenceLists, dev \in DeviceWaits :
       \E st \in Statuses(list, "Any", dev) : wait_for_fences(list, "Any", dev, st) /\ UNCHANGED callers

SpecAny == Init /\ [][NextAny]_allvars

\* SpecUpload: uploads of buffers and image regions to both families, and their flushes
NextUpload ==
  \/ \E size \in Sizes : Cardinality(CreatedResources) < FewRes /\ create_buffer(size) /\ UNCHANGED callers
  \/ \E size \in Sizes : Cardinality(CreatedResources) < FewRes /\ create_image(size) /\ UNCHANGED callers
  \/ \E buffer \in Resources, size \in HeapSizes, q \in ActiveQueues, write \in WriteResults :
       upload_buffer(buffer, size, q, write) /\ UNCHANGED callers
  \/ \E image \in Resources, format_desc \in FormatDescs, image_extent \in Extents,
        size \in HeapSizes, q \in ActiveQueues, write \in WriteResults :
       upload_image(image, TotalBytes(format_desc, image_extent), size, q, write) /\ UNCHANGED callers
  \/ \E i \in FamilyIndices : family_mut(families[i].id) /\ UNCHANGED callers
  \/ cleanup /\ UNCHANGED callers

SpecUpload == Init /\ [][NextUpload]_allvars

\* SpecFlush: uploads to both families between submissions and fence waits, and the
\* families' flushes
NextFlush ==
  \/ \E size \in Sizes : Cardinality(CreatedResources) < ReclaimRes /\ create_buffer(size) /\ UNCHANGED callers
  \/ \E buffer \in Resources, size \in Sizes, q \in ActiveQueues :
       upload_buffer(buffer, size, q, "ok") /\ UNCHANGED callers
  \/ \E q \in ActiveQueues, f \in Fences \cup {NoFence} :
       TotalSubmits < MaxSubmits /\ submit(q, f) /\ UNCHANGED callers
  \/ Cardinality(CreatedFences) < FewFences /\ create_fence(FALSE) /\ UNCHANGED callers
  \/ \E f \in Fences : wait_for_fence(f, "signaled") /\ UNCHANGED callers
  \/ \E i \in FamilyIndices : family_mut(families[i].id) /\ UNCHANGED callers

SpecFlush == Init /\ [][NextFlush]_allvars


\* the steps of thread t inside a creation call
CreateStep(t) ==
  \/ heaps_lock_acquire(t)
  \/ resources_read(t)
  \/ registry_create(t)
  \/ create_return(t)

\* SpecCreate: threads that create resources and run cleanup passes, and the owners'
\* uses and destroy requests
NextCreate ==
  \/ \E t \in Threads, size \in Sizes :
       /\ Cardinality(CreatedResources) + Cardinality(Creating) < FewRes
       /\ create_buffer_call(t, size) \/ create_image_call(t, size)
  \/ \E t \in Threads : CreateStep(t)
  \/ \E t \in Threads : cleanup_call(t)
  \/ \E t \in Threads : cleanup_pass(t)
  \/ \E r \in Resources, q \in ActiveQueues :
       ~CleanupRunning /\ record_use(r, q, Next_of(q)) /\ UNCHANGED callers
  \/ \E r \in Resources : destroy_request(r)

SpecCreate == Init /\ [][NextCreate]_allvars

\* the queue a fence is submitted through in SpecLocks: the families alternate
LockQueue(f) == IF f % 2 = 1 THEN [family |-> 1, index |-> 0] ELSE [family |-> 0, index |-> 0]

\* the steps of thread t inside wait_for_fences
WaitStep(t) ==
  \/ \E st \in FenceStatus : wait_for_fences_next(t, st)
  \/ wait_for_fences_fold(t)
  \/ wait_for_fences_return(t)

\* SpecLocks: fences are armed on both families, then threads wait for lists of fences
\* of both families
NextLocks ==
  \/ (\A t \in Threads : ~InCall(t)) /\ create_fence(FALSE) /\ UNCHANGED callers
  \/ \E f \in Fences :
       /\ \A t \in Threads : ~InCall(t)
       /\ Next_of(LockQueue(f)) < AnyEpochs
       /\ submit(LockQueue(f), f)
       /\ UNCHANGED callers
  \/ \E t \in Threads, list \in FenceLists, wait_for \in {"Any", "All"}, dev \in DeviceWaits :
       /\ Len(list) <= MaxList
       /\ \E i, j \in DOMAIN list : fences[list[i]].epoch.queue.family # fences[list[j]].epoch.queue.family
       /\ wait_for_fences_call(t, list, wait_for, dev)
  \/ \E t \in Threads : WaitStep(t)

SpecLocks == Init /\ [][NextLocks]_allvars

\* SpecSlots: one wait_for_fences call at a time, over lists that may name several
\* fences of a family
NextSlots ==
  \/ /\ \A t \in Threads : ~InCall(t)
     /\ Cardinality(CreatedFences) < WaitFences
     /\ create_fence(FALSE) /\ UNCHANGED callers
  \/ \E f \in Fences :
       /\ \A t \in Threads : ~InCall(t)
       /\ Next_of(LockQueue(f)) < AnyEpochs
       /\ submit(LockQueue(f), f)
       /\ UNCHANGED callers
  \/ \E t \in Threads, list \in FenceLists, wait_for \in {"Any", "All"}, dev \in DeviceWaits :
       /\ Len(list) <= MaxList
       /\ \A u \in Threads : ~InCall(u)
       /\ wait_for_fences_call(t, list, wait_for, dev)
  \/ \E t \in Threads : WaitStep(t)

SpecSlots == Init /\ [][NextSlots]_allvars

\* The device: submitted work completes on the GPU in its own time, and a call that
\* asks the device to wait can take its step when the device answers; the device is
\* not lost here.


\* timeout_ns: no wait, a finite wait, and the wait without bound
NoWait == 0

Unbounded == 2

Timeouts == {NoWait, 1, Unbounded}

GpuDone_of(q) == gpu_done[families_indices[q.family]][q.index]

\* the device has completed every submission
GpuIdle == \A q \in QueueIds : GpuDone_of(q) = Next_of(q)

\* the device has completed the submission the fence was armed with
DeviceSignaled(f) ==
  /\ fences[f].state = "submitted"
  /\ fences[f].epoch.epoch < GpuDone_of(fences[f].epoch.queue)

\* the GPU completes the oldest submission of a queue
gpu_finish(q) ==
  /\ GpuDone_of(q) < Next_of(q)
  /\ gpu_done' = [gpu_done EXCEPT ![families_indices[q.family]][q.index] = @ + 1]
  /\ UNCHANGED <<vars, pc, call, heaps_lock, resources_lock, epochs_lock, FACTORY_ID, constructed>>

\* Fence::wait_signaled on the device: the answer to a wait for one fence; no answer
\* comes to a wait without bound before the fence's submission completes
DeviceWaitFence(f, timeout) ==
  IF DeviceSignaled(f) THEN {"signaled"}
  ELSE IF timeout = Unbounded THEN {} ELSE {"timeout"}

\* device.wait_for_fences: the answer to a combined wait
DeviceWaitFences(list, wait_for, timeout) ==
  LET hit == IF wait_for = "All" THEN \A i \in DOMAIN list : DeviceSignaled(list[i])
                                 ELSE \E i \in DOMAIN list : DeviceSignaled(list[i])
  IN IF hit THEN {"ok"} ELSE IF timeout = Unbounded THEN {} ELSE {"timeout"}

\* device.get_fence_status for each fence of the list
DeviceStatus(list, wait_for, dev) ==
  IF wait_for = "Any" /\ dev = "ok"
    THEN [i \in DOMAIN list |-> IF DeviceSignaled(list[i]) THEN "signaled" ELSE "unsignaled"]
    ELSE [i \in DOMAIN list |-> "signaled"]

\* the queue that SpecDevice submits to
DeviceQueue == [family |-> 1, index |-> 0]

\* a bug: the caller's timeout is not handed to the device, which waits without bound
wait_for_fence_timeout_dropped(f, timeout_ns) ==
  /\ \E res \in DeviceWaitFence(f, Unbounded) : wait_for_fence(f, res)
  /\ UNCHANGED callers

\* factory.rs 501-517 with the device's answer: the call returns when the device answers
wait_for_fence_timeout(f, timeout_ns) ==
  /\ \E res \in DeviceWaitFence(f, timeout_ns) : wait_for_fence(f, res)
  /\ UNCHANGED callers

\* factory.rs 520-579 with the device's answers
wait_for_fences_timeout(list, wait_for, timeout_ns) ==
  /\ \E dev \in DeviceWaitFences(list, wait_for, timeout_ns) :
       wait_for_fences(list, wait_for, dev, DeviceStatus(list, wait_for, dev))
  /\ UNCHANGED callers

\* factory.rs 198-202: device.wait_idle answers when the device has no work left
wait_idle ==
  /\ GpuIdle
  /\ UNCHANGED allvars

\* SpecDevice: the Factory is called while the GPU works through the submissions
NextDevice ==
  \/ \E f \in Fences \cup {NoFence} :
       TotalSubmits < MaxSubmits /\ submit(DeviceQueue, f) /\ UNCHANGED callers
  \/ gpu_finish(DeviceQueue)
  \/ Cardinality(CreatedFences) < FewFences /\ create_fence(FALSE) /\ UNCHANGED callers
  \/ \E size \in Sizes :
       Cardinality(CreatedResources) < FewRes /\ create_buffer(size) /\ UNCHANGED callers
  \/ \E size \in Sizes :
       Cardinality(CreatedResources) < FewRes /\ create_image(size) /\ UNCHANGED callers
  \/ \E buffer \in Resources, size \in Sizes, write \in WriteResults :
       /\ Cardinality(CreatedResources) < FewRes
       /\ upload_buffer(buffer, size, DeviceQueue, write) /\ UNCHANGED callers
  \/ \E image \in Resources, total \in Sizes, size \in Sizes, write \in WriteResults :
       /\ Cardinality(CreatedResources) < FewRes
       /\ upload_image(image, total, size, DeviceQueue, write) /\ UNCHANGED callers
  \/ \E i \in FamilyIndices : family_mut(families[i].id) /\ UNCHANGED callers
  \/ cleanup /\ UNCHANGED callers
  \/ \E f \in Fences, timeout_ns \in Timeouts : wait_for_fence_timeout(f, timeout_ns)
  \/ \E list \in FenceLists, wait_for \in {"Any", "All"}, timeout_ns \in Timeouts :
       wait_for_fences_timeout(list, wait_for, timeout_ns)
  \/ wait_idle

SpecDevice == Init /\ [][NextDevice]_allvars

----------------------------------------------------------------------------
(***************************************************************************)
(* Teardown.  Drop for Factory runs on the thread that owns the Factory:   *)
(* one step for the wait and one for each part it disposes, in the order   *)
(* of the statements of factory.rs 48-78.                                  *)
(***************************************************************************)

\* a Factory is being dropped or has been dropped
Dropping == \E t \in Threads : call[t].name = "drop"

\* device.wait_idle: Ok once the device has no work left; a HostExecutionError may be
\* reported whether or not work is outstanding
DeviceWaitIdle == IF GpuIdle THEN {"ok", "err"} ELSE {"err"}

\* the resources that hold an allocation of the heaps
Allocated == {r \in Resources : resources[r].state \in {"live", "pending"}}

\* the staging buffers an upload state holds: of the pending copies and of the flushed
StagingOf(index) ==
  uploads[index].inflight
    \cup {uploads[index].pending[i].staging : i \in DOMAIN uploads[index].pending}

\* factory.rs 48: the owner's value goes out of scope; no borrow of it is alive
drop_call(t) ==
  /\ pc[t] = "idle" /\ CanBorrow(t, TRUE) /\ ~Dropping
  /\ pc' = [pc EXCEPT ![t] = "wait_idle"]
  /\ call' = [call EXCEPT ![t] = [name |-> "drop", disposed |-> <<>>, waited |-> "none"]]
  /\ UNCHANGED <<vars, heaps_lock, resources_lock, epochs_lock, FACTORY_ID, constructed, gpu_done>>

\* factory.rs 50: let _ = self.wait_idle(); the result is discarded
drop_wait_idle(t, res) ==
  /\ pc[t] = "wait_idle" /\ res \in DeviceWaitIdle
  /\ pc' = [pc EXCEPT ![t] = "uploads"]
  /\ call' = [call EXCEPT ![t].waited = res]
  /\ UNCHANGED <<vars, heaps_lock, resources_lock, epochs_lock, FACTORY_ID, constructed, gpu_done>>

\* factory.rs 52-56: every family's upload state is disposed with its staging buffers
drop_uploads(t) ==
  /\ pc[t] = "uploads"
  /\ resources' = DestroyAll(resources, UNION {StagingOf(i) : i \in FamilyIndices})
  /\ uploads' = [i \in FamilyIndices |-> [pending |-> <<>>, inflight |-> {}]]
  /\ pc' = [pc EXCEPT ![t] = "families"]
  /\ call' = [call EXCEPT ![t].disposed = Append(@, "uploads")]
  /\ UNCHANGED <<next_epoch, epochs, fences, heaps>>
  /\ UNCHANGED <<heaps_lock, resources_lock, epochs_lock, FACTORY_ID, constructed, gpu_done>>

\* factory.rs 59-61: the queue families are disposed
drop_families(t) ==
  /\ pc[t] = "families"
  /\ pc' = [pc EXCEPT ![t] = "resources"]
  /\ call' = [call EXCEPT ![t].disposed = Append(@, "families")]
  /\ UNCHANGED <<vars, heaps_lock, resources_lock, epochs_lock, FACTORY_ID, constructed, gpu_done>>

\* a bug: the registry releases the queued resources only
drop_resources_queued_only(t) ==
  /\ pc[t] = "resources"
  /\ resources' = [r \in Resources |->
                     IF resources[r].state = "pending" THEN Freed(resources[r]) ELSE resources[r]]
  /\ heaps' = FreeAll(heaps, resources, {r \in Resources : resources[r].state = "pending"})
  /\ pc' = [pc EXCEPT ![t] = "heaps"]
  /\ call' = [call EXCEPT ![t].disposed = Append(@, "resources")]
  /\ UNCHANGED <<next_epoch, epochs, fences, uploads>>
  /\ UNCHANGED <<heaps_lock, resources_lock, epochs_lock, FACTORY_ID, constructed, gpu_done>>

\* factory.rs 63-70: Resources::dispose(device, heaps) releases every resource of the
\* registry and returns its memory to the heaps
drop_resources(t) ==
  /\ pc[t] = "resources"
  /\ resources' = [r \in Resources |->
                     IF r \in Allocated THEN Freed(resources[r]) ELSE resources[r]]
  /\ heaps' = FreeAll(heaps, resources, Allocated)
  /\ pc' = [pc EXCEPT ![t] = "heaps"]
  /\ call' = [call EXCEPT ![t].disposed = Append(@, "resources")]
  /\ UNCHANGED <<next_epoch, epochs, fences, uploads>>
  /\ UNCHANGED <<heaps_lock, resources_lock, epochs_lock, FACTORY_ID, constructed, gpu_done>>

\* factory.rs 72-76: Heaps::dispose(device), the last statement of the drop
drop_heaps(t) ==
  /\ pc[t] = "heaps"
  /\ pc' = [pc EXCEPT ![t] = "dropped"]
  /\ call' = [call EXCEPT ![t].disposed = Append(@, "heaps")]
  /\ UNCHANGED <<vars, heaps_lock, resources_lock, epochs_lock, FACTORY_ID, constructed, gpu_done>>

\* SpecDrop: the Factory is used while the GPU works, then its owner drops it
NextDrop ==
  \/ ~Dropping /\ TotalSubmits < MaxSubmits /\ submit(DeviceQueue, NoFence)
       /\ UNCHANGED callers
  \/ gpu_finish(DeviceQueue)
  \/ \E size \in Sizes :
       /\ ~Dropping /\ Cardinality(CreatedResources) < FewRes
       /\ create_buffer(size) /\ UNCHANGED callers
  \/ \E buffer \in Resources, size \in Sizes :
       /\ ~Dropping /\ Cardinality(CreatedResources) < MaxRes
       /\ upload_buffer(buffer, size, DeviceQueue, "ok") /\ UNCHANGED callers
  \/ \E r \in Resources : ~Dropping /\ destroy(r) /\ UNCHANGED callers
  \/ ~Dropping /\ family_mut(DeviceQueue.family) /\ UNCHANGED callers
  \/ \E t \in Threads : drop_call(t)
  \/ \E t \in Threads, res \in {"ok", "err"} : drop_wait_idle(t, res)
  \/ \E t \in Threads : drop_uploads(t)
  \/ \E t \in Threads : drop_families(t)
  \/ \E t \in Threads : drop_resources(t)
  \/ \E t \in Threads : drop_heaps(t)

SpecDrop == Init /\ [][NextDrop]_allvars

----------------------------------------------------------------------------
(***************************************************************************)
(* Construction: the configured queue families and the table from a        *)
(* family's id to its index in Factory::families.                          *)
(***************************************************************************)

\* adapter.queue_families: the adapter's families have the ids 0 .. AdapterFamilies - 1
AdapterFamilies == 3

AdapterFamilyIds == 0 .. (AdapterFamilies - 1)

\* factory.rs 169: `!0`, the entry of an id no family was stored for
Unset == -1

\* factory.rs 140-144: QueuesConfigure::configure picks families of the adapter, each once,
\* with the number of queues to open; `families` holds them in the order picked
Configurations ==
  UNION {{cfg \in [0 .. (n - 1) -> [id : AdapterFamilyIds, queues : 1 .. 2]] :
            \A i, j \in 0 .. (n - 1) : cfg[i].id = cfg[j].id => i = j} :
           n \in 1 .. AdapterFamilies}

\* factory.rs 140-158 and 169: the configured families are built and the table is
\* allocated with one entry per configured family
init_families(t, cfg) ==
  /\ pc[t] = "idle" /\ constructed = 0 /\ \A u \in Threads : call[u].name = "none"
  /\ \A u \in Threads : pc[u] = "idle"
  /\ pc' = [pc EXCEPT ![t] = "families_indices"]
  /\ call' = [call EXCEPT ![t] =
                [name |-> "init", families |-> cfg, index |-> 0,
                 families_indices |-> [i \in DOMAIN cfg |-> Unset]]]
  /\ UNCHANGED <<vars, heaps_lock, resources_lock, epochs_lock, FACTORY_ID, constructed, gpu_done>>

\* factory.rs 170-172: one iteration of the loop; an index past the end of the table
\* panics
init_families_indices(t) ==
  LET c == call[t]
      id == c.families[c.index].id
  IN /\ pc[t] = "families_indices" /\ c.index \in DOMAIN c.families
     /\ IF id \in DOMAIN c.families_indices
          THEN /\ call' = [call EXCEPT ![t].families_indices[id] = c.index,
                                       ![t].index = c.index + 1]
               /\ pc' = pc
          ELSE /\ call' = call
               /\ pc' = [pc EXCEPT ![t] = "panicked"]
     /\ UNCHANGED <<vars, heaps_lock, resources_lock, epochs_lock, FACTORY_ID, constructed, gpu_done>>

\* factory.rs 174-192: the Factory is built: one upload state and one vector of
\* completed epochs per configured family, one counter per queue, all 0
init_factory(t) ==
  LET c == call[t]
  IN /\ pc[t] = "families_indices" /\ c.index \notin DOMAIN c.families
     /\ pc' = [pc EXCEPT ![t] = "constructed"]
     /\ call' = [call EXCEPT ![t] =
                   [name |-> "Factory", families |-> c.families,
                    families_indices |-> c.families_indices,
                    uploads |-> [i \in DOMAIN c.families |-> [pending |-> <<>>, inflight |-> {}]],
                    epochs |-> [i \in DOMAIN c.families |->
                                  [k \in 0 .. (c.families[i].queues - 1) |-> 0]],
                    found |-> "none"]]
     /\ constructed' = constructed + 1
     /\ UNCHANGED <<vars, heaps_lock, resources_lock, epochs_lock, FACTORY_ID, gpu_done>>

\* factory.rs 426-428: &self.families[self.families_indices[id.0]]; either index out of
\* range panics
Family_of(factory, id) ==
  IF id \notin DOMAIN factory.families_indices THEN "panic"
  ELSE IF factory.families_indices[id] \notin DOMAIN factory.families THEN "panic"
  ELSE factory.families[factory.families_indices[id]]

\* factory.rs 425-428: Factory::family(id) on the constructed Factory
family(t, id) ==
  /\ pc[t] = "constructed"
  /\ call' = [call EXCEPT ![t].found = Family_of(call[t], id)]
  /\ UNCHANGED <<vars, pc, heaps_lock, resources_lock, epochs_lock, FACTORY_ID, constructed, gpu_done>>

\* SpecConfig: Factory::init with every choice of families, then lookups by id
NextConfig ==
  \/ /\ \A u \in Threads : pc[u] = "idle"
     /\ \E t \in Threads, cfg \in Configurations : init_families(t, cfg)
  \/ \E t \in Threads : init_families_indices(t)
  \/ \E t \in Threads : init_factory(t)
  \/ \E t \in Threads, id \in AdapterFamilyIds : family(t, id)

SpecConfig == InitProcess /\ [][NextConfig]_allvars

----------------------------------------------------------------------------
(***************************************************************************)
(* Vertex input of a render group: RenderGroupDesc::build turns the        *)
(* pipeline's per-buffer vertex formats into the buffer descriptions and   *)
(* the attribute descriptions of the graphics pipeline.                    *)
(***************************************************************************)

MaxBuffers == 3
MaxElements == 2

\* gfx_hal::pso::Element: the attributes a vertex format is made of
Elements == {"position", "color"}

\* ElemStride and InstanceRate are carried into the description as they are
Strides == {4}
Rates == {0}

ElementLists == UNION {[1 .. n -> Elements] : n \in 0 .. MaxElements}

\* simple.rs 38-42: Pipeline::vertices, one (elements, stride, rate) per vertex buffer
VertexLists ==
  UNION {[1 .. n -> [elements : ElementLists, stride : Strides, rate : Rates]] :
           n \in 0 .. MaxBuffers}

\* simple.rs 386: attributes.last().map_or(0, |a| a.location + 1)
NextLocation(attributes) ==
  IF attributes = <<>> THEN 0 ELSE attributes[Len(attributes)].location + 1

\* simple.rs 387-394: the elements are pushed in order, each at the next location
RECURSIVE PushElements(_, _, _, _)
PushElements(attributes, elements, index, location) ==
  IF elements = <<>> THEN attributes
  ELSE PushElements(Append(attributes, [location |-> location, binding |-> index,
                                        element |-> Head(elements)]),
                    Tail(elements), index, location + 1)

\* a bug: the locations start again at 0 for every vertex buffer
push_vertex_desc_restarts(elements, stride, rate, vertex_buffers, attributes) ==
  LET index == Len(vertex_buffers)
  IN [vertex_buffers |-> Append(vertex_buffers, [binding |-> index, stride |-> stride, rate |-> rate]),
      attributes |-> PushElements(attributes, elements, index, 0)]

\* simple.rs 372-396: the lists after the call
push_vertex_desc(elements, stride, rate, vertex_buffers, attributes) ==
  LET index == Len(vertex_buffers)
  IN [vertex_buffers |-> Append(vertex_buffers, [binding |-> index, stride |-> stride, rate |-> rate]),
      attributes |-> PushElements(attributes, elements, index, NextLocation(attributes))]

\* simple.rs 277-278: build starts with both lists empty
build_call(t, vertices) ==
  /\ \A u \in Threads : pc[u] = "idle"
  /\ pc' = [pc EXCEPT ![t] = "vertices"]
  /\ call' = [call EXCEPT ![t] = [name |-> "build", vertices |-> vertices, i |-> 1,
                                  vertex_buffers |-> <<>>, attributes |-> <<>>]]
  /\ UNCHANGED <<vars, heaps_lock, resources_lock, epochs_lock, FACTORY_ID, constructed, gpu_done>>

\* simple.rs 280-282: one iteration of the loop over pipeline.vertices
build_vertices(t) ==
  LET c == call[t]
      v == c.vertices[c.i]
      lists == push_vertex_desc(v.elements, v.stride, v.rate, c.vertex_buffers, c.attributes)
  IN /\ pc[t] = "vertices" /\ c.i \in DOMAIN c.vertices
     /\ call' = [call EXCEPT ![t].vertex_buffers = lists.vertex_buffers,
                             ![t].attributes = lists.attributes,
                             ![t].i = c.i + 1]
     /\ UNCHANGED <<vars, pc, heaps_lock, resources_lock, epochs_lock, FACTORY_ID, constructed, gpu_done>>

\* simple.rs 283-340: the loop is over and the lists go into the pipeline description
build_pipeline(t) ==
  /\ pc[t] = "vertices" /\ call[t].i \notin DOMAIN call[t].vertices
  /\ pc' = [pc EXCEPT ![t] = "pipeline"]
  /\ UNCHANGED <<vars, call, heaps_lock, resources_lock, epochs_lock, FACTORY_ID, constructed, gpu_done>>

\* SpecVertex: builds of render groups with every list of vertex formats
NextVertex ==
  \/ /\ \A u \in Threads : pc[u] = "idle"
     /\ \E t \in Threads, vertices \in VertexLists : build_call(t, vertices)
  \/ \E t \in Threads : build_vertices(t)
  \/ \E t \in Threads : build_pipeline(t)

SpecVertex == Init /\ [][NextVertex]_allvars


\* SpecInit: the threads of a process that has no Factory yet call Factory::init
NextInit ==
  \/ \E t \in Threads, opened \in BOOLEAN :
       /\ opened => FACTORY_ID + Cardinality(AtCheck) < MaxInits
       /\ init_call(t, opened)
  \/ \E t \in Threads : init_check(t)
  \/ \E t \in Threads : init_construct(t)

SpecInit == InitProcess /\ [][NextInit]_allvars

----------------------------------------------------------------------------
(***************************************************************************)
(* Properties.                                                             *)
(***************************************************************************)

Pending(r) == resources[r].state = "pending"

IsFreed(r) == resources[r].state = "freed"

\* the step releases the memory of r
Releases(r) == resources[r].state \in {"live", "pending"} /\ resources'[r].state = "freed"

\* every last-use epoch of r has been reached by the stored completed epoch of its queue
AllUsesCompleted(r) ==
  \A q \in QueueIds :
    resources[r].lastUse[q] # NoUse => Completed_of(q) >= resources[r].lastUse[q]

\* C1 No premature free: no step releases the memory of a resource whose last-use
\* record holds an epoch E on a queue Q while completed[Q] < E.
NoPrematureFree ==
  [][\A r \in Resources : Releases(r) => AllUsesCompleted(r)]_vars

\* a resource was released whose record holds an epoch that was not complete at the start
NoPrematureFree_witness ==
  \E r \in Resources, q \in QueueIds : IsFreed(r) /\ resources[r].lastUse[q] >= 1

\* the resource has records on two queues, one reached by its completed epoch, one not
HeldOut(r) ==
  \E A, B \in QueueIds :
    /\ A # B
    /\ resources[r].lastUse[A] # NoUse /\ Completed_of(A) >= resources[r].lastUse[A]
    /\ resources[r].lastUse[B] # NoUse /\ Completed_of(B) < resources[r].lastUse[B]

\* C2 Cross-queue holdout: a pending-destroy resource referenced by queues A and B with
\* completed[A] >= E_A and completed[B] < E_B stays pending in every step, cleanup
\* included; a resource referenced by two queues is released only in a step that
\* starts with both queues' completed epochs at or past their last-use epochs.
CrossQueueHoldout ==
  [][\A r \in Resources :
       /\ (Pending(r) /\ HeldOut(r)) => resources'[r] = resources[r]
       /\ \A A, B \in QueueIds :
            (A # B /\ resources[r].lastUse[A] # NoUse /\ resources[r].lastUse[B] # NoUse
               /\ Releases(r))
              => /\ Completed_of(A) >= resources[r].lastUse[A]
                 /\ Completed_of(B) >= resources[r].lastUse[B]]_vars

\* a pending resource is held out by one of two queues
CrossQueueHoldout_witness ==
  \E r \in Resources : Pending(r) /\ HeldOut(r)

\* C3 Eventual reclamation: whenever a pending-destroy resource has all its last-use
\* epochs reached by the completed epochs, the cleanup call made in that state frees it,
\* and until it is freed no step takes that condition away (so repeated cleanup calls
\* leave no such resource in the pending-destroy queue).
EventualReclamation ==
  /\ [](\A r \in Resources :
          (Pending(r) /\ AllUsesCompleted(r)) => ENABLED (cleanup /\ IsFreed(r)'))
  /\ [][\A r \in Resources :
          (Pending(r) /\ AllUsesCompleted(r))
            => (IsFreed(r)' \/ (Pending(r)' /\ AllUsesCompleted(r)'))]_vars

\* a resource referenced by two queues was released
EventualReclamation_witness ==
  \E r \in Resources, A, B \in QueueIds :
    /\ A # B /\ IsFreed(r)
    /\ resources[r].lastUse[A] # NoUse /\ resources[r].lastUse[B] >= 1

\* C4 Deferred destruction: a destroy request for a resource with a last-use record
\* queues it and leaves the heaps alone; the memory of such a resource is released
\* only from the pending-destroy queue, by a cleanup step.
DeferredDestruction ==
  [][\A r \in Resources :
       /\ (destroy(r) /\ HasLastUse(resources[r]))
            => (Pending(r)' /\ heaps' = heaps)
       /\ (HasLastUse(resources[r]) /\ Releases(r)) => (Pending(r) /\ cleanup)]_vars

\* a destroyed resource waits in the pending-destroy queue, its memory still allocated
DeferredDestruction_witness ==
  \E r \in Resources :
    Pending(r) /\ HasLastUse(resources[r]) /\ heaps[resources[r].heap] >= resources[r].size

\* C5 A destroy request for a resource without a last-use record releases it in the
\* destroy step itself: the resource is freed and its memory is back in the heap.
ImmediateDestroy ==
  [][\A r \in Resources :
       (destroy(r) /\ ~HasLastUse(resources[r]))
         => (IsFreed(r)' /\ heaps' = Free(heaps, resources[r]))]_vars

\* a never-used resource was released and its heap is empty again
ImmediateDestroy_witness ==
  \E r \in Resources :
    IsFreed(r) /\ ~HasLastUse(resources[r]) /\ heaps[resources[r].heap] = 0

\* the bytes resources hold in heap h
RECURSIVE Held(_, _)
Held(h, S) ==
  IF S = {} THEN 0
  ELSE LET r == CHOOSE x \in S : TRUE
       IN (IF resources[r].state \in {"live", "pending"} /\ resources[r].heap = h
             THEN resources[r].size ELSE 0) + Held(h, S \ {r})

\* C6 Idempotent cleanup: right after a cleanup step a second pass with the same epochs
\* has nothing to release; a freed resource stays freed and each heap's allocated size
\* is the sum of the sizes of the resources not yet freed (nothing is returned twice).
IdempotentCleanup ==
  [][/\ cleanup => Released(resources', epochs') = {}
     /\ \A r \in Resources : IsFreed(r) => IsFreed(r)'
     /\ \A h \in HeapIds : heaps'[h] = Held(h, Resources)']_vars

\* cleanup released a used resource and nothing more is releasable
IdempotentCleanup_witness ==
  /\ \E r \in Resources : IsFreed(r) /\ HasLastUse(resources[r])
  /\ Released(resources, epochs) = {}
  /\ \A h \in HeapIds : heaps[h] = 0

\* C7 completed[Q] never decreases: in every step, fence waits of either kind and
\* with any outcome included, each queue's stored completed epoch stays or grows.
CompletedMonotonic ==
  [][\A q \in QueueIds : Completed_of(q)' >= Completed_of(q)]_vars

\* a queue's completed epoch has advanced and every fence has been signaled
CompletedMonotonic_witness ==
  /\ \E q \in QueueIds : Completed_of(q) >= 1
  /\ Cardinality({f \in Fences : fences[f].state = "signaled"}) >= WaitFences

\* C8 completed[Q] <= next[Q] for every queue, in the stored counters and in the pair
\* of snapshots (next epochs, completed epochs) that cleanup hands to the registry.
CompletedAtMostNext ==
  \A q \in QueueIds :
    /\ Completed_of(q) <= Next_of(q)
    /\ EpochOf(complete_epochs, q) <= EpochOf(next_epochs, q)

\* a queue whose latest submission is complete
CompletedAtMostNext_witness ==
  \E q \in QueueIds : Completed_of(q) >= 1 /\ Completed_of(q) + 1 = Next_of(q)

\* a submission through queue q
Submits(q) == \E f \in Fences \cup {NoFence} : submit(q, f)

\* a step that changes the state outside the Factory: only fences and next epochs differ
QueueStep == vars' # vars /\ UNCHANGED <<epochs, resources, heaps, uploads>>

\* C9 next[Q] grows by exactly one in each submission through Q and is changed by no
\* other step (upload, fence wait, cleanup, flush), so it never decreases and no two
\* submissions of a queue get the same epoch.
NextAdvancesBySubmission ==
  [][\A q \in QueueIds :
       /\ (QueueStep /\ Next_of(q)' # Next_of(q) + 1) => ~Submits(q)
       /\ Next_of(q)' # Next_of(q) => (Submits(q) /\ Next_of(q)' = Next_of(q) + 1)]_vars

\* two submissions went through one queue and an upload was staged
NextAdvancesBySubmission_witness ==
  /\ \E q \in QueueIds : Next_of(q) = 2
  /\ \E r \in Resources : resources[r].kind = "staging" /\ resources[r].state = "live"

\* a fence wait step
FenceWaitStep ==
  \/ \E f \in Fences, res \in WaitResults : wait_for_fence(f, res)
  \/ \E list \in FenceLists, wait_for \in {"Any", "All"}, dev \in DeviceWaits :
       \E st \in Statuses(list, wait_for, dev) : wait_for_fences(list, wait_for, dev, st)

\* a step of one of the operations that are no fence wait
OtherFactoryStep ==
  \/ \E size \in Sizes : create_buffer(size) \/ create_image(size)
  \/ \E r \in Resources, size \in Sizes, q \in QueueIds, write \in WriteResults :
       upload_buffer(r, size, q, write) \/ upload_image(r, size, size, q, write)
  \/ \E f \in Fences, ok \in BOOLEAN : reset_fence(f, ok)
  \/ \E S \in SUBSET Fences, ok \in BOOLEAN : reset_fences(S, ok)
  \/ \E i \in FamilyIndices : family_mut(families[i].id)
  \/ cleanup

\* C10 completed[Q] changes only in a fence wait step in which a fence bound to Q goes
\* from submitted to signaled; create_buffer, create_image, upload_buffer, upload_image,
\* reset_fence(s), family_mut and cleanup leave every completed epoch unchanged.
CompletedOnlyByFenceWait ==
  [][/\ \A q \in QueueIds :
          Completed_of(q)' # Completed_of(q)
            => /\ FenceWaitStep
               /\ \E f \in Fences :
                    /\ fences[f].state = "submitted" /\ fences[f].epoch.queue = q
                    /\ fences'[f].state = "signaled"
     /\ epochs' # epochs => ~OtherFactoryStep]_vars

\* a completed epoch has advanced and a staging buffer went through upload, flush,
\* the uploader's cleanup and the registry's cleanup
CompletedOnlyByFenceWait_witness ==
  /\ \E q \in QueueIds : Completed_of(q) >= 1
  /\ \E r \in Resources : resources[r].kind = "staging" /\ IsFreed(r) /\ HasLastUse(resources[r])

\* the queue and the epoch a submitted fence is bound to
QueueOf(f) == fences[f].epoch.queue

EpochOfFence(f) == fences[f].epoch.epoch

\* C11 When wait_for_fence observes the fence signaled it returns true and the completed
\* epoch of the fence's queue becomes max(previous completed, fence epoch): a fence
\* with an older epoch does not lower it, and no other queue's value changes.
FenceWaitAdvances ==
  \A f \in Submitted :
    /\ wait_for_fence_ret("signaled") = "Ok(true)"
    /\ ENABLED wait_for_fence(f, "signaled")
    /\ ~ENABLED (/\ wait_for_fence(f, "signaled")
                 /\ ~(/\ \A q \in QueueIds :
                           EpochOf(epochs', q) = IF q = QueueOf(f)
                                                   THEN Max(Completed_of(q), EpochOfFence(f))
                                                   ELSE Completed_of(q)
                      /\ EpochOf(epochs', QueueOf(f)) >= Completed_of(QueueOf(f))))

\* a fence bound to an epoch older than its queue's completed epoch is waited for with
\* success, and the completed epoch stays
FenceWaitAdvances_witness ==
  \E f \in Fences :
    /\ fences[f].state = "submitted"
    /\ EpochOfFence(f) < Completed_of(QueueOf(f))
    /\ ENABLED (wait_for_fence(f, "signaled") /\ epochs' = epochs
                  /\ fences'[f].state = "signaled")

\* the answers read for a list when every fence is reported signaled
AllSignaled(list) == [i \in DOMAIN list |-> "signaled"]

\* C12 A fence wait that times out (wait_for_fence, or wait_for_fences under either
\* policy) returns false, which is no error, and leaves every completed epoch and
\* every fence's state as they were, so that the same wait can be made again.
TimeoutLeavesState ==
  /\ wait_for_fence_ret("timeout") = "Ok(false)"
  /\ \A f \in Submitted :
       /\ ENABLED wait_for_fence(f, "timeout")
       /\ ~ENABLED (wait_for_fence(f, "timeout") /\ vars' # vars)
  /\ \A list \in FenceLists, wait_for \in {"Any", "All"} :
       /\ wait_for_fences_ret(list, wait_for, "timeout", AllSignaled(list)) = "Ok(false)"
       /\ ENABLED wait_for_fences(list, wait_for, "timeout", AllSignaled(list))
       /\ ~ENABLED (wait_for_fences(list, wait_for, "timeout", AllSignaled(list))
                      /\ vars' # vars)

\* two fences are armed with epochs their queues have not completed, and a wait for
\* one of them and a wait for both can time out
TimeoutLeavesState_witness ==
  \E list \in FenceLists :
    /\ Len(list) = 2
    /\ \A i \in DOMAIN list : EpochOfFence(list[i]) >= Completed_of(QueueOf(list[i]))
    /\ \E i \in DOMAIN list : EpochOfFence(list[i]) > Completed_of(QueueOf(list[i]))
    /\ ENABLED (wait_for_fence(list[1], "timeout") /\ UNCHANGED vars)
    /\ ENABLED (wait_for_fences(list, "Any", "timeout", AllSignaled(list)) /\ UNCHANGED vars)
    /\ ENABLED (wait_for_fences(list, "All", "timeout", AllSignaled(list)) /\ UNCHANGED vars)

\* the status query of the i-th fence was made and answered signaled
Confirmed(st, i) == st[i] = "signaled" /\ \A j \in 1 .. (i - 1) : st[j] # "err"

\* C13 Under the Any policy, after a successful combined wait, every fence of the list
\* whose own status query answers signaled is marked signaled and folded in, not only
\* the first: afterwards completed[queue(f)] >= epoch(f) for each such fence f.
AnyFoldsEverySignaled ==
  \A list \in FenceLists : \A st \in Statuses(list, "Any", "ok") :
    /\ ENABLED wait_for_fences(list, "Any", "ok", st)
    /\ ~ENABLED (/\ wait_for_fences(list, "Any", "ok", st)
                 /\ ~(\A i \in DOMAIN list :
                        Confirmed(st, i)
                          => /\ fences'[list[i]].state = "signaled"
                             /\ EpochOf(epochs', QueueOf(list[i])) >= EpochOfFence(list[i])))

\* an Any wait over two fences, both answered signaled, moves a completed epoch to the
\* epoch of the second fence
AnyFoldsEverySignaled_witness ==
  \E list \in FenceLists :
    /\ Len(list) = 2
    /\ EpochOfFence(list[2]) > Completed_of(QueueOf(list[2]))
    /\ EpochOfFence(list[2]) > EpochOfFence(list[1])
    /\ ENABLED (/\ wait_for_fences(list, "Any", "ok", AllSignaled(list))
                /\ \A i \in DOMAIN list : fences'[list[i]].state = "signaled"
                /\ epochs' = Advance(epochs, fences[list[2]].epoch))

\* C14 Under the Any policy a fence of the list that is not individually confirmed
\* signaled keeps its state and its epoch, and a queue none of whose fences is confirmed
\* keeps its completed epoch: with three fences on three distinct queues of which only
\* the second is signaled, only the second fence's queue changes.
AnyLeavesUnsignaled ==
  \A list \in FenceLists : \A st \in Statuses(list, "Any", "ok") :
    ~ENABLED (/\ wait_for_fences(list, "Any", "ok", st)
              /\ ~(/\ \A i \in DOMAIN list :
                        ~Confirmed(st, i) => fences'[list[i]] = fences[list[i]]
                   /\ \A q \in QueueIds :
                        (\A i \in DOMAIN list : QueueOf(list[i]) = q => ~Confirmed(st, i))
                          => EpochOf(epochs', q) = Completed_of(q)))

\* three fences are armed on three distinct queues, each with an epoch its queue has not
\* completed, and an Any wait in which only the second is signaled advances that queue alone
AnyLeavesUnsignaled_witness ==
  \E list \in FenceLists :
    /\ Len(list) = 3
    /\ \A i, j \in DOMAIN list : i # j => QueueOf(list[i]) # QueueOf(list[j])
    /\ \A i \in DOMAIN list : EpochOfFence(list[i]) > Completed_of(QueueOf(list[i]))
    /\ ENABLED (/\ wait_for_fences(list, "Any", "ok",
                                   [i \in DOMAIN list |-> IF i = 2 THEN "signaled" ELSE "unsignaled"])
                /\ EpochOf(epochs', QueueOf(list[2])) = EpochOfFence(list[2])
                /\ EpochOf(epochs', QueueOf(list[1])) = Completed_of(QueueOf(list[1]))
                /\ EpochOf(epochs', QueueOf(list[3])) = Completed_of(QueueOf(list[3]))
                /\ fences'[list[1]].state = "submitted" /\ fences'[list[3]].state = "submitted"
                /\ fences'[list[2]].state = "signaled")

\* C15 Under the All policy, when the combined wait returns true, every fence of the
\* list is marked signaled and every member's queue is advanced, without a status
\* query per fence: afterwards completed[queue(f)] >= epoch(f) for every fence f.
AllAdvancesEveryMember ==
  \A list \in FenceLists :
    /\ wait_for_fences_ret(list, "All", "ok", AllSignaled(list)) = "Ok(true)"
    /\ ENABLED wait_for_fences(list, "All", "ok", AllSignaled(list))
    /\ ~ENABLED (/\ wait_for_fences(list, "All", "ok", AllSignaled(list))
                 /\ ~(\A i \in DOMAIN list :
                        /\ fences'[list[i]].state = "signaled"
                        /\ EpochOf(epochs', QueueOf(list[i])) >= EpochOfFence(list[i])))

\* an All wait over two fences marks both and completes the epoch of the second
AllAdvancesEveryMember_witness ==
  \E list \in FenceLists :
    /\ Len(list) = 2
    /\ EpochOfFence(list[2]) > Completed_of(QueueOf(list[2]))
    /\ ENABLED (/\ wait_for_fences(list, "All", "ok", AllSignaled(list))
                /\ \A i \in DOMAIN list : fences'[list[i]].state = "signaled"
                /\ EpochOf(epochs', QueueOf(list[2])) = EpochOfFence(list[2]))

\* C16 record_use keeps a last-use epoch per queue: each call makes the record of its
\* queue the greater of the old record and the new epoch (so the record is the maximum
\* ever recorded for that queue) and leaves the records of the other queues alone.
RecordUsePerQueueMax ==
  \A r \in Resources, q \in QueueIds, e \in 0 .. MaxSubmits :
    (CallerOwned(r) /\ e <= Next_of(q))
      => /\ ENABLED record_use(r, q, e)
         /\ ~ENABLED (/\ record_use(r, q, e)
                      /\ ~(/\ resources'[r].lastUse[q] = Max(resources[r].lastUse[q], e)
                           /\ resources'[r].lastUse[q] >= resources[r].lastUse[q]
                           /\ \A other \in QueueIds \ {q} :
                                resources'[r].lastUse[other] = resources[r].lastUse[other]))

\* a resource has records on two queues, and recording an older epoch on one of them
\* changes nothing
RecordUsePerQueueMax_witness ==
  \E r \in Resources, A, B \in QueueIds :
    /\ A # B /\ CallerOwned(r)
    /\ resources[r].lastUse[A] >= 1 /\ resources[r].lastUse[B] # NoUse
    /\ ENABLED (record_use(r, A, 0) /\ resources' = resources)

\* the bytes of heap h that a cleanup pass in this state returns
ReleasedBytes(h) ==
  Held(h, {r \in Resources : Pending(r) /\ AllUsesCompleted(r)})

\* C19 Heap accounting on free: a cleanup pass that frees a buffer of size S (its
\* last-use epoch reached by the completed epoch) lowers the owning heap's allocated
\* size by at least S, and a pass that keeps the buffer (completed epoch still below
\* the last use) leaves the buffer allocated and the heap's counter unchanged.
HeapAccountingOnFree ==
  ~ENABLED (/\ cleanup
            /\ ~(/\ \A r \in Resources :
                      (Pending(r) /\ AllUsesCompleted(r))
                        => /\ resources'[r].state = "freed"
                           /\ heaps'[resources[r].heap]
                                <= heaps[resources[r].heap] - resources[r].size
                 /\ \A r \in Resources :
                      (Pending(r) /\ ~AllUsesCompleted(r)) => resources'[r] = resources[r]
                 /\ \A h \in HeapIds : heaps'[h] = heaps[h] - ReleasedBytes(h)))

\* a destroyed buffer whose last use (epoch 1 or later) has just completed: the cleanup
\* pass made now frees it and empties its heap
HeapAccountingOnFree_witness ==
  \E r \in Resources, q \in QueueIds :
    /\ Pending(r) /\ resources[r].kind = "buffer"
    /\ resources[r].lastUse[q] >= 1 /\ Completed_of(q) = resources[r].lastUse[q]
    /\ AllUsesCompleted(r)
    /\ ENABLED (cleanup /\ IsFreed(r)'
                  /\ heaps'[resources[r].heap] = heaps[resources[r].heap] - resources[r].size)

\* C17 Heap capacity: every heap's allocated size stays within its total; a
\* create_buffer request that exceeds the remaining capacity of its heap fails with
\* OutOfMemory and changes nothing, and a granted request is charged its full size.
HeapCapacity ==
  /\ \A h \in HeapIds : heaps[h] >= 0 /\ heaps[h] <= HeapTotal
  /\ \A size \in HeapSizes :
       HasFreeSlot
         => /\ ENABLED create_buffer(size)
            /\ IF heaps[HeapFor("buffer")] + size > HeapTotal
                 THEN /\ create_buffer_ret(size) = "OutOfMemory"
                      /\ ~ENABLED (create_buffer(size) /\ vars' # vars)
                 ELSE /\ create_buffer_ret(size) = "Ok"
                      /\ ~ENABLED (/\ create_buffer(size)
                                   /\ ~(/\ heaps'[HeapFor("buffer")]
                                             = heaps[HeapFor("buffer")] + size
                                        /\ resources'[FreeSlot].size = size
                                        /\ resources'[FreeSlot].state = "live"))

\* a heap is partly used and a request larger than the rest is refused, nothing changing
HeapCapacity_witness ==
  \E size \in HeapSizes :
    /\ HasFreeSlot
    /\ heaps[HeapFor("buffer")] > 0
    /\ heaps[HeapFor("buffer")] < HeapTotal
    /\ heaps[HeapFor("buffer")] + size > HeapTotal
    /\ create_buffer_ret(size) = "OutOfMemory"
    /\ ENABLED (create_buffer(size) /\ UNCHANGED vars)

\* the staging buffers the uploader holds: staged and not yet flushed, or in flight
StagedSet ==
  UNION {uploads[index].inflight
           \cup {uploads[index].pending[i].staging : i \in DOMAIN uploads[index].pending} :
         index \in FamilyIndices}

\* C20 Staging buffer lifecycle: an upload creates exactly one staging buffer, tagged
\* with the target queue's next epoch; once it has been flushed and the queue's
\* completed epoch has reached the tag, the family's staging cleanup (family_mut)
\* removes it from the uploader, so that the uploader's staging count returns to zero;
\* no step removes a staging buffer whose tag the completed epoch has not reached.
StagingLifecycle ==
  /\ [](/\ \A image \in Resources, q \in ActiveQueues :
             (resources[image].state = "live" /\ resources[image].kind = "image"
                /\ HasFreeSlot /\ CanAllocate(heaps, "staging", 1))
               => /\ ENABLED upload_image(image, 1, 1, q, "ok")
                  /\ ~ENABLED (/\ upload_image(image, 1, 1, q, "ok")
                               /\ ~(/\ StagedSet' = StagedSet \cup {FreeSlot}
                                    /\ FreeSlot \notin StagedSet
                                    /\ resources'[FreeSlot].kind = "staging"
                                    /\ resources'[FreeSlot].state = "live"
                                    /\ resources'[FreeSlot].lastUse[q] = Next_of(q)))
        /\ \A index \in FamilyIndices : \A s \in uploads[index].inflight :
             AllUsesCompleted(s)
               => ~ENABLED (/\ family_mut(families[index].id)
                            /\ ~(s \notin StagedSet' /\ resources'[s].state # "live")))
  /\ [][\A s \in Resources :
          (s \in StagedSet /\ ~AllUsesCompleted(s))
            => (s \in StagedSet' /\ resources'[s] = resources[s])]_vars

\* a staging buffer tagged with epoch 1 or later went through upload, flush and the
\* family's cleanup once its queue completed the tag, and the uploader holds none
StagingLifecycle_witness ==
  /\ StagedSet = {}
  /\ \E s \in Resources, q \in QueueIds :
       /\ resources[s].kind = "staging" /\ resources[s].state \in {"pending", "freed"}
       /\ resources[s].lastUse[q] >= 1 /\ Completed_of(q) >= resources[s].lastUse[q]

\* the index of the upload state that serves queue q
UploadIndex(q) == families_indices[q.family]

\* the staging buffers of the copies family index has pending
PendingStaging(index) ==
  {uploads[index].pending[i].staging : i \in DOMAIN uploads[index].pending}

\* C21 Per-family upload isolation: every pending copy sits in the upload state of the
\* family of its target queue; upload_buffer and upload_image add their copy to that
\* family's state and leave the state of every other family unchanged, and a flush
\* (family_mut) moves only its own family's pending copies and touches no other family.
UploadIsolation ==
  /\ \A index \in FamilyIndices : \A i \in DOMAIN uploads[index].pending :
       UploadIndex(uploads[index].pending[i].queue) = index
  /\ \A dest \in Resources, size \in HeapSizes, q \in ActiveQueues :
       /\ ~ENABLED (/\ upload_buffer(dest, size, q, "ok")
                    /\ ~(/\ \A other \in FamilyIndices \ {UploadIndex(q)} :
                              uploads'[other] = uploads[other]
                         /\ (uploads' # uploads
                               => /\ Len(uploads'[UploadIndex(q)].pending)
                                       = Len(uploads[UploadIndex(q)].pending) + 1
                                  /\ uploads'[UploadIndex(q)].pending[
                                       Len(uploads'[UploadIndex(q)].pending)].queue = q)))
       /\ ~ENABLED (/\ upload_image(dest, size, size, q, "ok")
                    /\ ~(/\ \A other \in FamilyIndices \ {UploadIndex(q)} :
                              uploads'[other] = uploads[other]
                         /\ (uploads' # uploads
                               => /\ Len(uploads'[UploadIndex(q)].pending)
                                       = Len(uploads[UploadIndex(q)].pending) + 1
                                  /\ uploads'[UploadIndex(q)].pending[
                                       Len(uploads'[UploadIndex(q)].pending)].queue = q)))
  /\ \A index \in FamilyIndices :
       ~ENABLED (/\ family_mut(families[index].id)
                 /\ ~(/\ \A other \in FamilyIndices \ {index} : uploads'[other] = uploads[other]
                      /\ (uploads'[index].inflight \ uploads[index].inflight)
                           \subseteq PendingStaging(index)))

\* both families have a copy pending, and a flush of the first family empties its
\* pending list and leaves the other family's copy pending
UploadIsolation_witness ==
  /\ \A index \in FamilyIndices : uploads[index].pending # <<>>
  /\ ENABLED (/\ family_mut(families[0].id)
              /\ uploads'[0].pending = <<>>
              /\ uploads'[1] = uploads[1]
              /\ uploads'[1].pending # <<>>)

\* the staging buffers of the copies family index has flushed and not yet released
Inflight(index) == uploads[index].inflight

\* C22 Every pending copy is drained into its family's command stream exactly once: a
\* staging buffer is held at most once, pending or flushed, by one family; family_mut(id)
\* always completes, leaves family id without pending copies and has moved every copy
\* that was pending to the flushed ones (none dropped); a pending copy leaves the
\* pending list in no other way, and a flushed copy never becomes pending again (none
\* emitted twice).
DrainedExactlyOnce ==
  /\ [](/\ \A index \in FamilyIndices :
             /\ \A i, j \in DOMAIN uploads[index].pending :
                  i # j => uploads[index].pending[i].staging # uploads[index].pending[j].staging
             /\ PendingStaging(index) \cap Inflight(index) = {}
             /\ \A other \in FamilyIndices \ {index} :
                  (PendingStaging(index) \cup Inflight(index))
                    \cap (PendingStaging(other) \cup Inflight(other)) = {}
             /\ ENABLED family_mut(families[index].id)
             /\ ~ENABLED (/\ family_mut(families[index].id)
                          /\ ~(/\ uploads'[index].pending = <<>>
                               /\ PendingStaging(index) \subseteq uploads'[index].inflight)))
  /\ [][\A index \in FamilyIndices :
          /\ \A s \in PendingStaging(index) :
               \/ s \in PendingStaging(index)'
               \/ s \in Inflight(index)' /\ family_mut(families[index].id)
          /\ \A s \in Inflight(index) :
               \A any \in FamilyIndices : s \notin PendingStaging(any)']_vars

\* one flush has drained two copies of a family, and the family has nothing pending
DrainedExactlyOnce_witness ==
  \E index \in FamilyIndices :
    /\ Cardinality(Inflight(index)) = 2
    /\ uploads[index].pending = <<>>
    /\ \A s \in Inflight(index) : resources[s].state = "live"

\* a step that resets fence f
Resets(f) ==
  \/ reset_fence(f, TRUE)
  \/ \E S \in SUBSET Fences : f \in S /\ reset_fences(S, TRUE)

\* a step that arms fence f with the epoch of a submission
Arms(f) == \E q \in QueueIds : submit(q, f)

\* C23 A fence is bound to a (queue, epoch) exactly while it is submitted, to one pair at
\* a time; it is armed only from the unsignaled state, which a fence that has been armed
\* or signaled reaches only through an explicit reset; and reset_fences accepts a set of
\* fences only when every one of them is signaled (it panics otherwise).
FenceOneEpoch ==
  /\ [](/\ \A f \in Fences :
             /\ fences[f].state = "submitted" <=> fences[f].epoch # NoEpoch
             /\ fences[f].state # "unsignaled" => \A q \in QueueIds : ~ENABLED submit(q, f)
        /\ \A S \in SUBSET Fences :
             S # {} =>
               IF \A f \in S : fences[f].state = "signaled"
                 THEN /\ reset_fences_ret(S, TRUE) = "Ok"
                      /\ ENABLED reset_fences(S, TRUE)
                 ELSE /\ reset_fences_ret(S, TRUE) = "panic"
                      /\ ~ENABLED reset_fences(S, TRUE))
  /\ [][\A f \in Fences :
          /\ (fences'[f].epoch # NoEpoch /\ fences'[f].epoch # fences[f].epoch)
               => (fences[f].state = "unsignaled" /\ Arms(f))
          /\ (fences[f].state \in {"submitted", "signaled"} /\ fences'[f].state = "unsignaled")
               => (fences[f].state = "signaled" /\ Resets(f))]_vars

\* a fence whose epoch (1 or later) a wait has folded in is signaled: it cannot be armed,
\* a reset makes it unsignaled, and a set holding it and an armed fence is refused
FenceOneEpoch_witness ==
  \E f, g \in Fences, q \in QueueIds :
    /\ fences[f].state = "signaled" /\ Completed_of(q) >= 1
    /\ fences[g].state = "submitted"
    /\ ~ENABLED submit(q, f)
    /\ ENABLED (reset_fences({f}, TRUE) /\ fences'[f].state = "unsignaled")
    /\ ~ENABLED reset_fences({f, g}, TRUE)

LiveImage(r) == resources[r].state = "live" /\ resources[r].kind = "image"

\* C27 upload_image rejects a content whose byte size differs from the byte size of
\* the image region (total_bytes, as lines 354-357 compute it): the call panics on the
\* assertion and changes nothing, neither the heaps nor any upload state, since the
\* staging buffer is created and the copy recorded only after the check; a content of
\* the region's size passes the check and is staged.
ImageSizeChecked ==
  \A image \in Resources, format_desc \in FormatDescs, image_extent \in Extents,
     size \in HeapSizes, q \in ActiveQueues, write \in WriteResults :
    LiveImage(image)
      => LET total_bytes == TotalBytes(format_desc, image_extent)
         IN IF total_bytes # size
              THEN /\ upload_image_ret(total_bytes, size, write) = "panic"
                   /\ ENABLED upload_image(image, total_bytes, size, q, write)
                   /\ ~ENABLED (upload_image(image, total_bytes, size, q, write)
                                  /\ vars' # vars)
              ELSE /\ upload_image_ret(total_bytes, size, write) # "panic"
                   /\ (HasFreeSlot /\ upload_image_ret(total_bytes, size, write) = "Ok")
                        => /\ ENABLED upload_image(image, total_bytes, size, q, write)
                           /\ ~ENABLED (/\ upload_image(image, total_bytes, size, q, write)
                                        /\ ~(/\ PendingStaging(UploadIndex(q))'
                                                  = PendingStaging(UploadIndex(q)) \cup {FreeSlot}
                                             /\ resources'[FreeSlot].size = size
                                             /\ heaps'["host"] = heaps["host"] + size))

\* an image, a free slot and room in the host heap: a content one unit short of the
\* region is rejected with nothing changed, a content of the region's size is staged
ImageSizeChecked_witness ==
  \E image \in Resources, format_desc \in FormatDescs, image_extent \in Extents,
     q \in ActiveQueues :
    LET total_bytes == TotalBytes(format_desc, image_extent)
    IN /\ LiveImage(image) /\ HasFreeSlot
       /\ total_bytes >= 2 /\ CanAllocate(heaps, "staging", total_bytes)
       /\ upload_image_ret(total_bytes, total_bytes - 1, "ok") = "panic"
       /\ ENABLED (upload_image(image, total_bytes, total_bytes - 1, q, "ok") /\ UNCHANGED vars)
       /\ ENABLED (upload_image(image, total_bytes, total_bytes, q, "ok")
                     /\ Len(uploads'[UploadIndex(q)].pending)
                          = Len(uploads[UploadIndex(q)].pending) + 1)

LiveBuffer(r) == resources[r].state = "live" /\ resources[r].kind = "buffer"

\* the copy the upload of this state records: the new staging buffer for dest on queue q
RecordedCopy(dest, q) ==
  [staging |-> FreeSlot, dest |-> dest, queue |-> q, epoch |-> Next_of(q)]

\* the upload made now records exactly its copy, in the family of q, behind a written
\* staging buffer; or, when it fails, it records nothing and leaves the heaps alone
UploadOutcome(A, dest, size, q, write) ==
  /\ ENABLED A
  /\ Upload_ret(size, write) = "OutOfMemory" <=> ~CanAllocate(heaps, "staging", size)
  /\ IF Upload_ret(size, write) = "Ok"
       THEN ~ENABLED (/\ A
                      /\ ~(/\ uploads' = [uploads EXCEPT ![UploadIndex(q)].pending =
                                             Append(@, RecordedCopy(dest, q))]
                           /\ resources'[FreeSlot].state = "live"
                           /\ resources'[FreeSlot].kind = "staging"))
       ELSE ~ENABLED (A /\ ~(uploads' = uploads /\ heaps' = heaps))

\* C28 When the staging buffer cannot be allocated or the host write into it fails,
\* upload_buffer and upload_image return that error after the one attempt and record no
\* copy in any family's pending state; a copy is recorded only by a call whose staging
\* buffer was allocated and written.
UploadFailureRecordsNothing ==
  \A dest \in Resources, size \in HeapSizes, q \in ActiveQueues, write \in WriteResults :
    /\ (LiveBuffer(dest) /\ HasFreeSlot)
         => UploadOutcome(upload_buffer(dest, size, q, write), dest, size, q, write)
    /\ (LiveImage(dest) /\ HasFreeSlot)
         => UploadOutcome(upload_image(dest, size, size, q, write), dest, size, q, write)

\* a copy is pending and the host heap is full: the next upload fails with OutOfMemory,
\* and so does not change the pending copies; with room a failed write does the same
UploadFailureRecordsNothing_witness ==
  \E dest \in Resources, q \in ActiveQueues :
    /\ LiveBuffer(dest) /\ HasFreeSlot
    /\ uploads[UploadIndex(q)].pending # <<>>
    /\ Upload_ret(1, "ok") = "OutOfMemory"
    /\ ENABLED (upload_buffer(dest, 1, q, "ok") /\ UNCHANGED vars)

----------------------------------------------------------------------------
(***************************************************************************)
(* Concurrent creation and cleanup.                                        *)
(***************************************************************************)

\* the threads between the lock of the heaps and the return that drops the guard
HoldsHeaps(t) == t \in Creating /\ pc[t] \in {"resources.read", "create", "return"}

\* the next step of thread t inside its call
CallStep(t) == CreateStep(t) \/ cleanup_pass(t)

\* C25: the heaps are changed by at most one thread at a time: concurrent create_buffer
\* and create_image calls are serialised on the heaps mutex (at most one thread is past
\* the lock, and while the mutex is held the heaps change only by its holder's creation),
\* each call holds the heaps mutex whenever it holds the catalogue's read guard, so the
\* order is heaps first in every call, and no interleaving deadlocks: every thread in a
\* call can take its next step, or waits for the heaps of a holder that can.
HeapsSerialized ==
  /\ [](\A t, u \in Threads : HoldsHeaps(t) /\ HoldsHeaps(u) => t = u)
  /\ [](\A t \in Threads : HoldsHeaps(t) => heaps_lock = t)
  /\ [](\A t \in resources_lock : heaps_lock = t /\ pc[t] \in {"create", "return"})
  /\ [](\A t \in Threads : pc[t] = "create" => t \in resources_lock)
  /\ [](\A t \in Threads :
          InCall(t) => \/ ENABLED CallStep(t)
                       \/ /\ pc[t] = "heaps.lock"
                          /\ heaps_lock \in Threads \ {t}
                          /\ ENABLED CallStep(heaps_lock))
  /\ [][heaps' # heaps /\ heaps_lock # NoThread => registry_create(heaps_lock)]_allvars

\* two creation calls at once: one has changed the heaps under the mutex and holds it
\* still, the other waits for it
HeapsSerialized_witness ==
  \E t, u \in Threads :
    /\ pc[t] = "return" /\ heaps_lock = t /\ t \in resources_lock
    /\ heaps["device"] > 0
    /\ pc[u] = "heaps.lock" /\ ~ENABLED CallStep(u)

\* C24 (amended): a cleanup pass has exclusive access to the whole Factory, the destroy
\* queue included: while a thread is in cleanup no other thread is in a Factory call and
\* none can start one, creation included, and the catalogue and the heaps change only by
\* the pass itself.
CleanupExclusive ==
  /\ [](\A t \in Threads : call[t].name = "cleanup" =>
          \A u \in Threads \ {t} :
            /\ ~InCall(u)
            /\ ~ENABLED cleanup_call(u)
            /\ \A size \in Sizes : ~ENABLED create_buffer_call(u, size)
            /\ \A size \in Sizes : ~ENABLED create_image_call(u, size))
  /\ [][CleanupRunning /\ <<resources, heaps>>' # <<resources, heaps>> =>
          \E t \in Threads : cleanup_pass(t)]_allvars

\* a cleanup pass in progress with a resource to release, while a second thread has
\* room to create a resource and cannot start
CleanupExclusive_witness ==
  \E t \in Threads, u \in Threads :
    /\ call[t].name = "cleanup" /\ u # t
    /\ Released(resources, epochs) # {}
    /\ Cardinality(CreatedResources) < FewRes
    /\ ~ENABLED create_buffer_call(u, 1)

\* C24 as stated: a cleanup pass has the destroy queue to itself, and a creation can
\* run while the pass runs: a second thread with room for a resource can call
\* create_buffer during the pass.
CleanupConcurrentWithCreation ==
  \A t \in Threads : call[t].name = "cleanup" =>
    \A u \in Threads \ {t} :
      /\ ~ENABLED cleanup_call(u)
      /\ Cardinality(CreatedResources) < FewRes =>
           \E size \in Sizes : ENABLED create_buffer_call(u, size)

----------------------------------------------------------------------------
(***************************************************************************)
(* The singleton check of Factory::init.                                   *)
(***************************************************************************)

\* the calls that have passed the singleton check
Passed == constructed + Cardinality({t \in Threads : pc[t] = "construct"})

\* C29: at most one Factory is ever constructed per process: of the init calls that
\* reach the singleton check, in sequence or interleaved, exactly the first passes (once
\* a call has been at the check one call has passed, and never two), and every later one
\* fails the assertion with a panic.
SingletonFactory ==
  /\ [](Passed <= 1 /\ constructed <= 1)
  /\ [](FACTORY_ID > 0 => Passed = 1)
  /\ [][\A t \in Threads :
          pc[t] = "singleton check" /\ pc'[t] # pc[t] =>
            /\ pc'[t] = "construct" <=> FACTORY_ID = 0
            /\ pc'[t] # "construct" => pc'[t] = "idle" /\ call'[t] = Returned("panic")]_allvars

\* two calls were at the check together: one passed and is still constructing, the
\* other has panicked
SingletonFactory_witness ==
  \E t, u \in Threads :
    /\ pc[t] = "construct" /\ call[u] = Returned("panic")
    /\ FACTORY_ID = 2 /\ constructed = 0

----------------------------------------------------------------------------
(***************************************************************************)
(* Concurrent wait_for_fences calls and the epochs locks.                  *)
(***************************************************************************)

\* thread t waits for a family's epochs lock that thread u holds
WaitsFor(t, u) ==
  /\ t # u
  /\ pc[t] = "epochs.write"
  /\ epochs_lock[families_indices[call[t].epoch.queue.family]] = u

\* C30: concurrent wait_for_fences calls never deadlock: whatever the order of the
\* families in the two lists, no two calls wait for each other's epochs lock, and every
\* call in progress can take its next step or waits for a call that can.
WaitsNeverDeadlock ==
  /\ \A t, u \in Threads : ~(WaitsFor(t, u) /\ WaitsFor(u, t))
  /\ \A t \in Threads :
       call[t].name = "wait_for_fences" =>
         \/ ENABLED WaitStep(t)
         \/ \E u \in Threads : WaitsFor(t, u) /\ ENABLED WaitStep(u)

----------------------------------------------------------------------------
(***************************************************************************)
(* Blocking on the GPU.                                                    *)
(***************************************************************************)

\* the operations that do not wait run whatever work the GPU has left
RunsRegardlessOfGpu ==
  /\ HasFreeSlot => \A size \in Sizes : ENABLED create_buffer(size) /\ ENABLED create_image(size)
  /\ \A r \in Resources, write \in WriteResults :
       /\ HasFreeSlot /\ LiveBuffer(r) => ENABLED upload_buffer(r, 1, DeviceQueue, write)
       /\ HasFreeSlot /\ LiveImage(r) => ENABLED upload_image(r, 1, 1, DeviceQueue, write)
  /\ \A i \in FamilyIndices : ENABLED family_mut(families[i].id)
  /\ ENABLED cleanup

\* a fence wait with timeout 0 returns at once
NoWaitReturns ==
  /\ \A f \in Submitted : ENABLED wait_for_fence_timeout(f, NoWait)
  /\ \A list \in FenceLists, wait_for \in {"Any", "All"} :
       ENABLED wait_for_fences_timeout(list, wait_for, NoWait)

\* C26 (amended): only the explicit fence-wait calls and wait_idle can block on GPU
\* completion: create_buffer, create_image, upload_buffer, upload_image, family_mut and
\* cleanup run whether or not submitted GPU work has finished, a fence wait with
\* timeout 0 returns without waiting, a fence wait is held up only when its timeout is
\* unbounded and its fence's work is unfinished, and wait_idle is held up exactly while
\* the GPU has work left.
OnlyWaitsBlock ==
  /\ RunsRegardlessOfGpu
  /\ NoWaitReturns
  /\ \A f \in Submitted, timeout_ns \in Timeouts :
       ~ENABLED wait_for_fence_timeout(f, timeout_ns)
         <=> timeout_ns = Unbounded /\ ~DeviceSignaled(f)
  /\ ~ENABLED wait_idle <=> ~GpuIdle

\* the GPU has not finished a fence's submission: an unbounded wait for the fence and
\* wait_idle are held up, while a buffer can be uploaded to
OnlyWaitsBlock_witness ==
  /\ \E f \in Submitted : ~DeviceSignaled(f) /\ ~ENABLED wait_for_fence_timeout(f, Unbounded)
  /\ ~ENABLED wait_idle
  /\ \E r \in Resources : LiveBuffer(r) /\ HasFreeSlot /\ uploads[0].pending # <<>>

\* C26 as stated: only the fence-wait calls can block on GPU completion, so the other
\* operations, wait_idle among them, run whatever work the GPU has left, and a fence
\* wait with timeout 0 returns without waiting.
OnlyFenceWaitsBlock ==
  /\ RunsRegardlessOfGpu
  /\ NoWaitReturns
  /\ ENABLED wait_idle

----------------------------------------------------------------------------
(***************************************************************************)
(* The epoch_locks vector of one wait_for_fences call.                     *)
(***************************************************************************)

\* the family index of the epoch that thread t is about to fold in
FoldIndex(t) == families_indices[call[t].epoch.queue.family]

\* C31: within one wait_for_fences call each family's epochs write lock is taken at
\* most once and the slot index is always in range, also when several fences of the
\* list belong to one family: the call never panics on the index, a slot is filled
\* exactly when the call holds that family's lock, and a call that holds the lock of
\* the next fence's family goes on without waiting for it.
EpochLocksOnce ==
  \A t \in Threads :
    call[t].name = "wait_for_fences" =>
      /\ ~call[t].panicked
      /\ \A k \in FamilyIndices :
           epochs_lock[k] = t <=> (k \in DOMAIN call[t].epoch_locks /\ call[t].epoch_locks[k])
      /\ pc[t] = "epochs.write" =>
           /\ FoldIndex(t) \in DOMAIN call[t].epoch_locks
           /\ epochs_lock[FoldIndex(t)] = t => ENABLED wait_for_fences_fold(t)

\* the second fence of a family is folded in under the lock taken for the first
EpochLocksOnce_witness ==
  \E t \in Threads :
    /\ pc[t] = "epochs.write" /\ call[t].i = 2
    /\ epochs_lock[FoldIndex(t)] = t
    /\ call[t].epoch_locks[FoldIndex(t)]

----------------------------------------------------------------------------
(***************************************************************************)
(* Errors of wait_for_fences.                                              *)
(***************************************************************************)

\* C32 (amended): when wait_for_fences returns an error from the combined device wait,
\* no queue's completed epoch and no fence's mark has been changed by the call; when
\* the error comes from a status query under the Any policy, the fences listed before
\* the failing query whose own status answered signaled have been marked and folded in,
\* and every other fence and every other queue's completed epoch is unchanged.
ErrorKeepsTheRest ==
  \A list \in FenceLists, wait_for \in {"Any", "All"}, dev \in DeviceWaits :
    \A st \in Statuses(list, wait_for, dev) :
      wait_for_fences_ret(list, wait_for, dev, st) = "Err" =>
        ~ENABLED (/\ wait_for_fences(list, wait_for, dev, st)
                  /\ ~(IF dev = "err"
                         THEN fences' = fences /\ epochs' = epochs
                         ELSE /\ \A f \in Fences :
                                   fences'[f] # fences[f] =>
                                     \E i \in DOMAIN list : list[i] = f /\ Confirmed(st, i)
                              /\ \A i \in DOMAIN list :
                                   Confirmed(st, i) => fences'[list[i]].state = "signaled"
                              /\ \A q \in QueueIds :
                                   EpochOf(epochs', q) # Completed_of(q) =>
                                     \E i \in DOMAIN list :
                                       QueueOf(list[i]) = q /\ Confirmed(st, i)))

\* an Any wait over two fences whose second status query fails: the call returns the
\* error after the first fence has been marked and its queue's epoch advanced
ErrorKeepsTheRest_witness ==
  \E list \in FenceLists :
    /\ Len(list) = 2
    /\ EpochOfFence(list[1]) > Completed_of(QueueOf(list[1]))
    /\ wait_for_fences_ret(list, "Any", "ok", <<"signaled", "err">>) = "Err"
    /\ ENABLED (/\ wait_for_fences(list, "Any", "ok", <<"signaled", "err">>)
                /\ fences'[list[1]].state = "signaled"
                /\ fences'[list[2]] = fences[list[2]]
                /\ EpochOf(epochs', QueueOf(list[1])) = EpochOfFence(list[1]))

\* C32 as stated: when wait_for_fences returns an error, no queue's completed epoch and
\* no fence's signaled mark has been changed by the call.
ErrorChangesNothing ==
  \A list \in FenceLists, wait_for \in {"Any", "All"}, dev \in DeviceWaits :
    \A st \in Statuses(list, wait_for, dev) :
      wait_for_fences_ret(list, wait_for, dev, st) = "Err" =>
        ~ENABLED (/\ wait_for_fences(list, wait_for, dev, st)
                  /\ (fences' # fences \/ epochs' # epochs))

----------------------------------------------------------------------------
(***************************************************************************)
(* reset_fences as a whole.                                                *)
(***************************************************************************)

\* C33: reset_fences is all-or-nothing: with a fence of the set that is not signaled the
\* call panics and nothing is reset or marked; when the device's reset returns an error
\* no fence is marked reset; when it returns Ok every fence of the set is marked reset,
\* and no fence outside the set is touched.
ResetAllOrNothing ==
  \A S \in SUBSET Fences, ok \in BOOLEAN :
    S # {} =>
      IF \E f \in S : fences[f].state # "signaled"
        THEN /\ reset_fences_ret(S, ok) = "panic"
             /\ ~ENABLED reset_fences(S, ok)
        ELSE /\ reset_fences_ret(S, ok) = (IF ok THEN "Ok" ELSE "Err")
             /\ ENABLED reset_fences(S, ok)
             /\ ~ENABLED (/\ reset_fences(S, ok)
                          /\ ~(IF ok
                                 THEN \A f \in Fences :
                                        IF f \in S
                                          THEN fences'[f] = [state |-> "unsignaled",
                                                             epoch |-> NoEpoch]
                                          ELSE fences'[f] = fences[f]
                                 ELSE fences' = fences))

\* two signaled fences and a third that is armed: the two are reset together, and the
\* three together are refused
ResetAllOrNothing_witness ==
  \E f, g, h \in Fences :
    /\ f # g
    /\ fences[f].state = "signaled" /\ fences[g].state = "signaled"
    /\ fences[h].state = "submitted"
    /\ ENABLED (/\ reset_fences({f, g}, TRUE)
                /\ fences'[f].state = "unsignaled" /\ fences'[g].state = "unsignaled")
    /\ ENABLED (reset_fences({f, g}, FALSE) /\ fences' = fences)
    /\ ~ENABLED reset_fences({f, g, h}, TRUE)

\* the statements of the drop, in the order of factory.rs 52-76
DropOrder == <<"uploads", "families", "resources", "heaps">>

\* C34: a drop waits for the device first, then disposes the upload states, the queue
\* families, the resources and last the heaps; when the heaps are disposed no resource
\* holds an allocation and every heap has its memory back
TeardownOrder ==
  \A t \in Threads :
    call[t].name = "drop" =>
      /\ call[t].disposed = SubSeq(DropOrder, 1, Len(call[t].disposed))
      /\ pc[t] # "wait_idle" => call[t].waited # "none"
      /\ pc[t] = "wait_idle" => call[t].disposed = <<>>
      /\ pc[t] \in {"heaps", "dropped"} =>
           /\ Allocated = {}
           /\ \A h \in HeapIds : heaps[h] = 0
           /\ \A i \in FamilyIndices : StagingOf(i) = {}

TeardownOrder_witness ==
  \E t \in Threads, r, s \in Resources :
    /\ pc[t] = "dropped" /\ call[t].disposed = DropOrder
    /\ resources[r].kind = "buffer" /\ HasLastUse(resources[r]) /\ IsFreed(r)
    /\ resources[s].kind = "staging" /\ IsFreed(s)

\* C35: the parts of a dropped Factory are disposed only when the device has no
\* submitted work left, whatever the wait for the idle device answered
DisposesOnlyWhenIdle ==
  \A t \in Threads :
    pc[t] \in {"uploads", "families", "resources", "heaps"} => GpuIdle

\* C36: for every choice of configured families Factory::init builds the table without
\* an access out of range, and on the Factory it returns family(f.id()) is f for every
\* configured family f, whose upload state and completed epochs (one counter per queue,
\* all 0) are at the same index
FamilyLookupTotal ==
  \A t \in Threads :
    /\ pc[t] # "panicked"
    /\ pc[t] = "constructed" =>
         \A index \in DOMAIN call[t].families :
           LET f == call[t].families[index]
           IN /\ Family_of(call[t], f.id) = f
              /\ call[t].families_indices[f.id] = index
              /\ index \in DOMAIN call[t].uploads
              /\ DOMAIN call[t].epochs[index] = 0 .. (f.queues - 1)
              /\ \A k \in 0 .. (f.queues - 1) : call[t].epochs[index][k] = 0

\* C37: family_mut(id) releases the staging buffers of family id that are in flight and
\* whose last use has completed, and then flushes the family's pending copies: the
\* buffers of the copies it flushes are in flight afterwards and none of them is
\* released by the call; the upload state and the staging buffers of every other family
\* are as they were
CleanupThenFlush ==
  \A index \in FamilyIndices :
    LET id == families[index].id
        done == {s \in Inflight(index) : Reclaimable(resources[s], epochs)}
    IN /\ ENABLED family_mut(id)
       /\ ~ENABLED (/\ family_mut(id)
                    /\ ~(/\ uploads'[index].pending = <<>>
                         /\ uploads'[index].inflight
                              = (Inflight(index) \ done) \cup PendingStaging(index)
                         /\ \A s \in done : resources'[s].state # "live"
                         /\ \A s \in PendingStaging(index) \cup (Inflight(index) \ done) :
                              resources'[s] = resources[s]
                         /\ \A other \in FamilyIndices \ {index} :
                              /\ uploads'[other] = uploads[other]
                              /\ \A s \in PendingStaging(other) \cup Inflight(other) :
                                   resources'[s] = resources[s]))

\* family_mut has released a staging buffer whose epoch had completed, and the buffer of
\* a copy it flushed is in flight and not released although its epoch has completed
CleanupThenFlush_witness ==
  \E index \in FamilyIndices, s1, s2 \in Resources :
    /\ resources[s1].kind = "staging" /\ resources[s1].state = "pending"
    /\ s1 \notin PendingStaging(index) \cup Inflight(index)
    /\ resources[s1].lastUse[[family |-> families[index].id, index |-> families[index].queues - 1]] # NoUse
    /\ s2 \in Inflight(index) /\ resources[s2].state = "live"
    /\ Reclaimable(resources[s2], epochs)
    /\ uploads[index].pending = <<>>

\* the number of elements of the first k vertex formats
RECURSIVE ElementsBefore(_, _)
ElementsBefore(vertices, k) ==
  IF k = 0 THEN 0 ELSE ElementsBefore(vertices, k - 1) + Len(vertices[k].elements)

\* C38: after the push_vertex_desc calls for the first formats of the pipeline, from
\* empty lists, the i-th vertex buffer description has binding i, every element of the
\* i-th format has an attribute with binding i, and the attributes' locations are
\* 0, 1, 2, ... in the order pushed, across all buffers and past formats without elements
VertexBindings ==
  \A t \in Threads :
    call[t].name = "build" =>
      LET c == call[t]
          n == c.i - 1
      IN /\ Len(c.vertex_buffers) = n
         /\ \A k \in 1 .. n :
              /\ c.vertex_buffers[k]
                   = [binding |-> k - 1, stride |-> c.vertices[k].stride, rate |-> c.vertices[k].rate]
              /\ \A e \in DOMAIN c.vertices[k].elements :
                   LET j == ElementsBefore(c.vertices, k - 1) + e
                   IN /\ j \in DOMAIN c.attributes
                      /\ c.attributes[j] = [location |-> j - 1, binding |-> k - 1,
                                            element |-> c.vertices[k].elements[e]]
         /\ Len(c.attributes) = ElementsBefore(c.vertices, n)
         /\ \A i, j \in DOMAIN c.attributes :
              /\ c.attributes[j].location = j - 1
              /\ i # j => c.attributes[i].location # c.attributes[j].location

\* a finished build whose second format has no element and whose first and third have
VertexBindings_witness ==
  \E t \in Threads :
    /\ pc[t] = "pipeline" /\ Len(call[t].vertex_buffers) = 3
    /\ call[t].vertices[1].elements # <<>>
    /\ call[t].vertices[2].elements = <<>>
    /\ Len(call[t].vertices[3].elements) = 2
    /\ call[t].attributes[Len(call[t].attributes)].binding = 2
    /\ call[t].attributes[Len(call[t].attributes)].location = Len(call[t].attributes) - 1
====
